---- MODULE Spec2Model ----
(***************************************************************************)
(* Asset lifecycle enforcement engine: a per-asset lifecycle state machine *)
(* (core/state_machine.py), the sequence-identity manager                  *)
(* (core/seqid_manager.py) and the enforcement engine that combines them   *)
(* (core/enforcement_engine.py).                                           *)
(*                                                                         *)
(* Time is counted in whole validity-window units.  Every call reads the   *)
(* wall clock once; the reading `wall` is chosen at or after the previous  *)
(* one.  Purity is counted in tenths of a percent (99.0 -> 990).           *)
(***************************************************************************)
EXTENDS Integers, Sequences, FiniteSets, TLC

\* ------------------------------------------------------------------ bounds

MaxClock == 2

MaxSeqInput == 2

MaxAlloc == 2

\* the validity window (validity_minutes), in clock units
validity == 1

\* ------------------------------------------------- configuration, constants

start_counter == 1

DefaultPurityMin == 990

DefaultScanMin == 8

\* ------------------------------------------------------------ input domains

UIDs == {"A", "B"}

\* the uids handed to the identity manager directly: one of them is empty
MgrUIDs == {"A", "B", ""}

BlankUIDs == {"", " "}

\* the uids handed to the engine where empty ones are among them
BlankEngineUIDs == {"A"} \cup BlankUIDs

Times == 0 .. MaxClock

\* an omitted Optional[datetime] argument (None)
NoTime == -1

TimeArgs == {NoTime} \cup Times

\* datetime.isoformat(): the ISO-8601 string of an instant
isoformat(t) == <<"iso", t>>

\* an omitted Optional[str] timestamp argument (None); "" reads the same
NoTs == <<>>

TsArgs == {NoTs} \cup {isoformat(t) : t \in Times}

SeqInputs == 1 .. MaxSeqInput


\* an omitted thresholds argument (None) and the empty dict both read as {}
NoThresholds == <<>>

Report(purity, scan_duration_s, contact_ok, thresholds) ==
    [purity |-> purity, scan_duration_s |-> scan_duration_s,
     contact_ok |-> contact_ok, thresholds |-> thresholds]

\* the measurement payloads presented: the valid one of run_attacks.py, its
\* three manipulations, and one failing every threshold
XrfReports ==
    {Report(996, 10, TRUE, NoThresholds),
     Report(985, 10, TRUE, NoThresholds),
     Report(996, 5, TRUE, NoThresholds),
     Report(996, 10, FALSE, NoThresholds),
     Report(985, 5, FALSE, NoThresholds)}

\* threshold sets supplied with a call: none, a complete one, and one that
\* names a single option and leaves the others to their defaults
ThresholdSets ==
    {NoThresholds,
     [purity_min_percent |-> 985, scan_duration_min_seconds |-> 5,
      contact_required |-> FALSE],
     [contact_required |-> FALSE]}

\* measurements at and just below the minimums, default and supplied, each
\* with each threshold set
SanityReports ==
    {Report(purity, scan_duration_s, contact_ok, th) :
        purity \in {984, 985, 989, 990}, scan_duration_s \in {4, 5, 7, 8},
        contact_ok \in BOOLEAN, th \in ThresholdSets}

GatewayIds == {"GW01"}

PcIds == {"PC01"}

SlotIds == {"S-07"}

\* --------------------------------------------------- core/state_machine.py

AssetState ==
    <<"UNREGISTERED", "RFID_VERIFIED", "SEQ_BOUND", "XRF_VERIFIED",
      "SLOT_BOUND", "STORED">>

EventType ==
    {"RFID_READ", "SEQ_ASSIGNED", "XRF_REPORT_ACCEPTED", "SLOT_ASSIGNED",
     "STORAGE_CONFIRMED", "SLOT_MOTION", "TAMPER"}

\* a table with a re-registration entry added
ALLOWED_reregister ==
    (<<"UNREGISTERED", "RFID_READ">> :> "RFID_VERIFIED")
    @@ (<<"RFID_VERIFIED", "SEQ_ASSIGNED">> :> "SEQ_BOUND")
    @@ (<<"SEQ_BOUND", "XRF_REPORT_ACCEPTED">> :> "XRF_VERIFIED")
    @@ (<<"XRF_VERIFIED", "SLOT_ASSIGNED">> :> "SLOT_BOUND")
    @@ (<<"SLOT_BOUND", "STORAGE_CONFIRMED">> :> "STORED")
    @@ (<<"STORED", "RFID_READ">> :> "RFID_VERIFIED")

\* a table whose last entry was left out
ALLOWED_no_storage ==
    (<<"UNREGISTERED", "RFID_READ">> :> "RFID_VERIFIED")
    @@ (<<"RFID_VERIFIED", "SEQ_ASSIGNED">> :> "SEQ_BOUND")
    @@ (<<"SEQ_BOUND", "XRF_REPORT_ACCEPTED">> :> "XRF_VERIFIED")
    @@ (<<"XRF_VERIFIED", "SLOT_ASSIGNED">> :> "SLOT_BOUND")

ALLOWED ==
    (<<"UNREGISTERED", "RFID_READ">> :> "RFID_VERIFIED")
    @@ (<<"RFID_VERIFIED", "SEQ_ASSIGNED">> :> "SEQ_BOUND")
    @@ (<<"SEQ_BOUND", "XRF_REPORT_ACCEPTED">> :> "XRF_VERIFIED")
    @@ (<<"XRF_VERIFIED", "SLOT_ASSIGNED">> :> "SLOT_BOUND")
    @@ (<<"SLOT_BOUND", "STORAGE_CONFIRMED">> :> "STORED")

\* a set of non-transition events that TAMPER was left out of
NON_TRANSITION_EVENTS_no_tamper == {"SLOT_MOTION"}

NON_TRANSITION_EVENTS == {"SLOT_MOTION", "TAMPER"}

TransitionResult(accepted, prev_state, event, next_state, reason) ==
    [accepted |-> accepted, prev_state |-> prev_state, event |-> event,
     next_state |-> next_state, reason |-> reason]

\* the TransitionResult that apply(event) returns from state prev
apply(prev, event) ==
    IF event \in NON_TRANSITION_EVENTS
    THEN TransitionResult(TRUE, prev, event, prev,
                          "NON_TRANSITION_EVENT_ACCEPTED")
    ELSE IF <<prev, event>> \notin DOMAIN ALLOWED
    THEN TransitionResult(FALSE, prev, event, prev,
                          "ILLEGAL_TRANSITION:" \o prev \o "->" \o event)
    ELSE TransitionResult(TRUE, prev, event, ALLOWED[<<prev, event>>],
                          "STATE_ADVANCED")

\* a machine that moves to the state its event leads to without looking at
\* the state it is in
apply_state_unchecked(prev, event) ==
    IF event \in NON_TRANSITION_EVENTS THEN prev
    ELSE IF \E k \in DOMAIN ALLOWED : k[2] = event
    THEN ALLOWED[CHOOSE k \in DOMAIN ALLOWED : k[2] = event]
    ELSE prev

\* the value of self._state after apply(event) from state prev
apply_state(prev, event) ==
    IF event \in NON_TRANSITION_EVENTS THEN prev
    ELSE IF <<prev, event>> \notin DOMAIN ALLOWED THEN prev
    ELSE ALLOWED[<<prev, event>>]

\* a can_apply that consults the allow-list alone
can_apply_allowlist_only(state, event) == <<state, event>> \in DOMAIN ALLOWED

\* what can_apply(event) returns for a machine in state; it assigns nothing
can_apply(state, event) ==
    IF event \in NON_TRANSITION_EVENTS THEN TRUE
    ELSE <<state, event>> \in DOMAIN ALLOWED

\* ---------------------------------------------------- core/seqid_manager.py

SeqBinding(uid, seq_id, issued_at, expires_at, used) ==
    [uid |-> uid, seq_id |-> seq_id, issued_at |-> issued_at,
     expires_at |-> expires_at, used |-> used]

\* dict assignment d[k] = v
Put(d, k, v) == [x \in (DOMAIN d) \cup {k} |-> IF x = k THEN v ELSE d[x]]

\* `now or self.now_utc()`: an omitted time is read from the wall clock
TimeOr(now, wall) == IF now = NoTime THEN wall ELSE now

VARIABLES
    fsms,        \* engine._fsms: uid -> state of that asset's state machine
    counter,     \* seq._counter
    by_uid,      \* seq._by_uid: uid -> SeqBinding
    by_seq,      \* seq._by_seq: seq_id -> SeqBinding
    clock,       \* the latest wall-clock reading
    last,        \* the latest call: operation, arguments, what it returned
    accepted,    \* per uid, the events decided ACCEPT so far, in order
    sanity_rejected,  \* uids that had a report rejected by a sanity threshold
    threads      \* per concurrent caller: where it stands in its call, the
                 \* call's arguments and locals, and what it returned

vars == <<fsms, counter, by_uid, by_seq, clock, last, accepted, sanity_rejected, threads>>

mgr_vars == <<counter, by_uid, by_seq>>

\* the value returned where a call returns no binding (it raised)
NoBinding == SeqBinding("", 0, 0, 0, FALSE)

\* a uid test that only turns the empty string away
is_blank_empty_only(uid) == uid = ""

\* `not uid or not uid.strip()`
is_blank(uid) == uid \in BlankUIDs

\* a binding that never expires
is_expired_never(binding, now, wall) == FALSE

is_expired(binding, now, wall) == TimeOr(now, wall) > binding.expires_at

\* issuance that allocates even though an active binding exists
issue_reuses_never(uid, t0, wall) == FALSE

\* the test of issue() for returning the existing binding
issue_reuses(uid, t0, wall) ==
    /\ uid \in DOMAIN by_uid
    /\ ~is_expired(by_uid[uid], t0, wall)
    /\ ~by_uid[uid].used

\* issuance that stamps the binding with the wall clock whatever instant it
\* was given
issue_stamps_wall(uid, issued_at, wall) ==
    IF is_blank(uid)
    THEN [raised |-> "ValueError", ret |-> NoBinding, counter |-> counter,
          by_uid |-> by_uid, by_seq |-> by_seq]
    ELSE LET t0 == TimeOr(issued_at, wall) IN
         IF issue_reuses(uid, t0, wall)
         THEN [raised |-> "", ret |-> by_uid[uid], counter |-> counter,
               by_uid |-> by_uid, by_seq |-> by_seq]
         ELSE LET binding ==
                      SeqBinding(uid, counter, wall, wall + validity, FALSE)
              IN [raised |-> "", ret |-> binding, counter |-> counter + 1,
                  by_uid |-> Put(by_uid, uid, binding),
                  by_seq |-> Put(by_seq, counter, binding)]

\* issuance that allocates the counter's value and leaves the counter alone
issue_no_increment(uid, issued_at, wall) ==
    IF is_blank(uid)
    THEN [raised |-> "ValueError", ret |-> NoBinding, counter |-> counter,
          by_uid |-> by_uid, by_seq |-> by_seq]
    ELSE LET t0 == TimeOr(issued_at, wall) IN
         IF issue_reuses(uid, t0, wall)
         THEN [raised |-> "", ret |-> by_uid[uid], counter |-> counter,
               by_uid |-> by_uid, by_seq |-> by_seq]
         ELSE LET binding ==
                      SeqBinding(uid, counter, t0, t0 + validity, FALSE)
              IN [raised |-> "", ret |-> binding, counter |-> counter,
                  by_uid |-> Put(by_uid, uid, binding),
                  by_seq |-> Put(by_seq, counter, binding)]

\* issue(uid, issued_at): what it returns or raises, and the manager after it
issue(uid, issued_at, wall) ==
    IF is_blank(uid)
    THEN [raised |-> "ValueError", ret |-> NoBinding, counter |-> counter,
          by_uid |-> by_uid, by_seq |-> by_seq]
    ELSE LET t0 == TimeOr(issued_at, wall) IN
         IF issue_reuses(uid, t0, wall)
         THEN [raised |-> "", ret |-> by_uid[uid], counter |-> counter,
               by_uid |-> by_uid, by_seq |-> by_seq]
         ELSE LET binding ==
                      SeqBinding(uid, counter, t0, t0 + validity, FALSE)
              IN [raised |-> "", ret |-> binding, counter |-> counter + 1,
                  by_uid |-> Put(by_uid, uid, binding),
                  by_seq |-> Put(by_seq, counter, binding)]

\* validation that tests the used flag before the expiry
validate_used_first(uid, seq_id, now, wall) ==
    IF uid \notin DOMAIN by_uid THEN "NO_BINDING_FOR_UID"
    ELSE IF by_uid[uid].seq_id # seq_id THEN "SEQ_MISMATCH"
    ELSE IF by_uid[uid].used THEN "ALREADY_USED"
    ELSE IF is_expired(by_uid[uid], TimeOr(now, wall), wall) THEN "EXPIRED"
    ELSE "OK"

\* validation that looks the presented seq_id up in the seq_id index and never
\* compares the uid
validate_by_seq(uid, seq_id, now, wall) ==
    IF seq_id \notin DOMAIN by_seq THEN "NO_BINDING_FOR_UID"
    ELSE IF is_expired(by_seq[seq_id], TimeOr(now, wall), wall) THEN "EXPIRED"
    ELSE IF by_seq[seq_id].used THEN "ALREADY_USED"
    ELSE "OK"

validate(uid, seq_id, now, wall) ==
    IF uid \notin DOMAIN by_uid THEN "NO_BINDING_FOR_UID"
    ELSE IF by_uid[uid].seq_id # seq_id THEN "SEQ_MISMATCH"
    ELSE IF is_expired(by_uid[uid], TimeOr(now, wall), wall) THEN "EXPIRED"
    ELSE IF by_uid[uid].used THEN "ALREADY_USED"
    ELSE "OK"

\* marking that stores the used copy under the uid only
mark_used_forgets_by_seq(uid, seq_id) ==
    IF uid \notin DOMAIN by_uid
    THEN [ret |-> "NOT_FOUND", by_uid |-> by_uid, by_seq |-> by_seq]
    ELSE IF by_uid[uid].seq_id # seq_id
    THEN [ret |-> "SEQ_MISMATCH", by_uid |-> by_uid, by_seq |-> by_seq]
    ELSE LET b == by_uid[uid]
             used_binding ==
                 SeqBinding(b.uid, b.seq_id, b.issued_at, b.expires_at, TRUE)
         IN [ret |-> "OK", by_uid |-> Put(by_uid, uid, used_binding),
             by_seq |-> by_seq]

\* marking that stores the used copy under the seq_id only
mark_used_forgets_by_uid(uid, seq_id) ==
    IF uid \notin DOMAIN by_uid
    THEN [ret |-> "NOT_FOUND", by_uid |-> by_uid, by_seq |-> by_seq]
    ELSE IF by_uid[uid].seq_id # seq_id
    THEN [ret |-> "SEQ_MISMATCH", by_uid |-> by_uid, by_seq |-> by_seq]
    ELSE LET b == by_uid[uid]
             used_binding ==
                 SeqBinding(b.uid, b.seq_id, b.issued_at, b.expires_at, TRUE)
         IN [ret |-> "OK", by_uid |-> by_uid,
             by_seq |-> Put(by_seq, seq_id, used_binding)]

\* mark_used(uid, seq_id): what it returns, and the two indexes after it
mark_used(uid, seq_id) ==
    IF uid \notin DOMAIN by_uid
    THEN [ret |-> "NOT_FOUND", by_uid |-> by_uid, by_seq |-> by_seq]
    ELSE IF by_uid[uid].seq_id # seq_id
    THEN [ret |-> "SEQ_MISMATCH", by_uid |-> by_uid, by_seq |-> by_seq]
    ELSE LET b == by_uid[uid]
             used_binding ==
                 SeqBinding(b.uid, b.seq_id, b.issued_at, b.expires_at, TRUE)
         IN [ret |-> "OK", by_uid |-> Put(by_uid, uid, used_binding),
             by_seq |-> Put(by_seq, seq_id, used_binding)]


\* ------------------------------------------------ core/enforcement_engine.py

EnforcementDecision(decision, reason, asset_id, prev_state, next_state, event, timestamp_utc, details) ==
    [decision |-> decision, reason |-> reason, asset_id |-> asset_id,
     prev_state |-> prev_state, next_state |-> next_state, event |-> event,
     timestamp_utc |-> timestamp_utc, details |-> details]

\* where a call returns no decision (it raised)
NoDecision == EnforcementDecision("", "", "", "", "", "", NoTs, <<>>)

now_iso(wall) == isoformat(wall)

\* `ts_utc or self._now_iso()`
TsOr(ts_utc, wall) == IF ts_utc = NoTs THEN now_iso(wall) ELSE ts_utc

\* the state of the machine _get_fsm(uid) returns (a new one is UNREGISTERED)
get_fsm(uid) == IF uid \in DOMAIN fsms THEN fsms[uid] ELSE AssetState[1]

\* an ACCEPT record that reports the state the asset came from as its next
accept_reports_prev(uid, tr, details, wall) ==
    EnforcementDecision("ACCEPT", tr.reason, uid, tr.prev_state,
                        tr.prev_state, tr.event, now_iso(wall), details)

\* _accept: the ACCEPT record of a transition the machine made
accept(uid, tr, details, wall) ==
    EnforcementDecision("ACCEPT", tr.reason, uid, tr.prev_state,
                        tr.next_state, tr.event, now_iso(wall), details)

reject(uid, tr, reason, details, wall) ==
    EnforcementDecision("REJECT", reason, uid, tr.prev_state, tr.next_state,
                        tr.event, now_iso(wall), details)

reject_simple(uid, prev_state, event, reason, details, wall) ==
    EnforcementDecision("REJECT", reason, uid, prev_state, prev_state, event,
                        now_iso(wall), details)

\* what a handler leaves behind: its decision or exception, the asset's
\* machine state, and the identity manager
Outcome(decision, raised, state, c, bu, bs) ==
    [decision |-> decision, raised |-> raised, state |-> state,
     counter |-> c, by_uid |-> bu, by_seq |-> bs]

\* an RFID read that raises on an illegal transition instead of returning
handle_rfid_read_raises(uid, gateway_id, ts_utc, wall) ==
    LET state == get_fsm(uid)
        tr == apply(state, "RFID_READ")
        after == apply_state(state, "RFID_READ")
        details == [gateway_id |-> gateway_id]
    IN IF ~tr.accepted
       THEN Outcome(NoDecision, "ValueError", after, counter, by_uid, by_seq)
       ELSE Outcome(accept(uid, tr, details, wall), "", after,
                    counter, by_uid, by_seq)

\* an RFID read behind a state gate of its own, like the later operations
handle_rfid_read_gated(uid, gateway_id, ts_utc, wall) ==
    LET state == get_fsm(uid)
        tr == apply(state, "RFID_READ")
        details == [gateway_id |-> gateway_id]
    IN IF state # "UNREGISTERED"
       THEN Outcome(reject_simple(uid, state, "RFID_READ",
                                  "STATE_NOT_UNREGISTERED", details, wall),
                    "", state, counter, by_uid, by_seq)
       ELSE Outcome(accept(uid, tr, details, wall), "",
                    apply_state(state, "RFID_READ"), counter, by_uid, by_seq)

\* handle_rfid_read: the machine decides, there is no gate before it
handle_rfid_read(uid, gateway_id, ts_utc, wall) ==
    LET state == get_fsm(uid)
        tr == apply(state, "RFID_READ")
        after == apply_state(state, "RFID_READ")
        details == [gateway_id |-> gateway_id]
    IN IF ~tr.accepted
       THEN Outcome(reject(uid, tr, tr.reason, details, wall), "", after,
                    counter, by_uid, by_seq)
       ELSE Outcome(accept(uid, tr, details, wall), "", after,
                    counter, by_uid, by_seq)

\* the instant handle_seq_request hands to issue(): none, so the wall clock
seq_request_issued_at(ts_utc) == NoTime

\* a seq request that issues before it looks at the asset's state
handle_seq_request_issue_first(uid, ts_utc, wall) ==
    LET state == get_fsm(uid)
        t == TsOr(ts_utc, wall)
        i == issue(uid, seq_request_issued_at(ts_utc), wall)
        binding == i.ret
        tr == apply(state, "SEQ_ASSIGNED")
        after == apply_state(state, "SEQ_ASSIGNED")
    IN IF i.raised # ""
       THEN Outcome(NoDecision, i.raised, state, i.counter, i.by_uid, i.by_seq)
       ELSE IF state # "RFID_VERIFIED"
       THEN Outcome(reject_simple(uid, state, "SEQ_ASSIGNED",
                                  "STATE_NOT_RFID_VERIFIED", [ts |-> t], wall),
                    "", state, i.counter, i.by_uid, i.by_seq)
       ELSE Outcome(EnforcementDecision(
                        "ACCEPT", "SEQ_ISSUED", uid, tr.prev_state,
                        tr.next_state, "SEQ_ASSIGNED", t,
                        [seq_id |-> binding.seq_id,
                         issued_at |-> isoformat(binding.issued_at),
                         expires_at |-> isoformat(binding.expires_at)]),
                    "", after, i.counter, i.by_uid, i.by_seq)

\* a seq request that also serves an asset in SEQ_BOUND, issuing again
handle_seq_request_renews(uid, ts_utc, wall) ==
    LET state == get_fsm(uid)
        t == TsOr(ts_utc, wall)
        i == issue(uid, seq_request_issued_at(ts_utc), wall)
        binding == i.ret
        after == IF state = "SEQ_BOUND" THEN state
                 ELSE apply_state(state, "SEQ_ASSIGNED")
    IN IF state \notin {"RFID_VERIFIED", "SEQ_BOUND"}
       THEN Outcome(reject_simple(uid, state, "SEQ_ASSIGNED",
                                  "STATE_NOT_RFID_VERIFIED", [ts |-> t], wall),
                    "", state, counter, by_uid, by_seq)
       ELSE IF i.raised # ""
       THEN Outcome(NoDecision, i.raised, state, i.counter, i.by_uid, i.by_seq)
       ELSE Outcome(EnforcementDecision(
                        "ACCEPT", "SEQ_ISSUED", uid, state, after,
                        "SEQ_ASSIGNED", t,
                        [seq_id |-> binding.seq_id,
                         issued_at |-> isoformat(binding.issued_at),
                         expires_at |-> isoformat(binding.expires_at)]),
                    "", after, i.counter, i.by_uid, i.by_seq)

\* handle_seq_request: state gate, then issue, then the machine
handle_seq_request(uid, ts_utc, wall) ==
    LET state == get_fsm(uid)
        t == TsOr(ts_utc, wall)
        i == issue(uid, seq_request_issued_at(ts_utc), wall)
        binding == i.ret
        tr == apply(state, "SEQ_ASSIGNED")
        after == apply_state(state, "SEQ_ASSIGNED")
    IN IF state # "RFID_VERIFIED"
       THEN Outcome(reject_simple(uid, state, "SEQ_ASSIGNED",
                                  "STATE_NOT_RFID_VERIFIED", [ts |-> t], wall),
                    "", state, counter, by_uid, by_seq)
       ELSE IF i.raised # ""
       THEN Outcome(NoDecision, i.raised, state, i.counter, i.by_uid, i.by_seq)
       ELSE IF ~tr.accepted
       THEN Outcome(reject(uid, tr, tr.reason,
                           [seq_id |-> binding.seq_id,
                            expires_at |-> isoformat(binding.expires_at)],
                           wall),
                    "", after, i.counter, i.by_uid, i.by_seq)
       ELSE Outcome(EnforcementDecision(
                        "ACCEPT", "SEQ_ISSUED", uid, tr.prev_state,
                        tr.next_state, "SEQ_ASSIGNED", t,
                        [seq_id |-> binding.seq_id,
                         issued_at |-> isoformat(binding.issued_at),
                         expires_at |-> isoformat(binding.expires_at)]),
                    "", after, i.counter, i.by_uid, i.by_seq)

\* th.get(key, default)
ThGet(th, key, default) == IF key \in DOMAIN th THEN th[key] ELSE default

\* a report handler with no state gate
xrf_state_gate_open(state) == FALSE

\* the state gate of handle_xrf_report: TRUE when the call is turned away
xrf_state_gate(state) == state # "SEQ_BOUND"

\* the instant handle_xrf_report hands to validate(): none, so the wall clock
xrf_validate_now(ts_utc) == NoTime

\* sanity thresholds tested in the order contact, scan duration, purity
sanity_fail_contact_first(purity, scan_duration_s, contact_ok, thresholds) ==
    LET th == thresholds
        purity_min == ThGet(th, "purity_min_percent", DefaultPurityMin)
        scan_min == ThGet(th, "scan_duration_min_seconds", DefaultScanMin)
        contact_required == ThGet(th, "contact_required", TRUE)
    IN IF contact_required /\ ~contact_ok THEN "SANITY_FAIL:CONTACT_NOT_OK"
       ELSE IF scan_duration_s < scan_min THEN "SANITY_FAIL:SCAN_TOO_SHORT"
       ELSE IF purity < purity_min THEN "SANITY_FAIL:PURITY_TOO_LOW"
       ELSE ""

\* sanity thresholds that a purity equal to the minimum fails
sanity_fail_exclusive(purity, scan_duration_s, contact_ok, thresholds) ==
    LET th == thresholds
        purity_min == ThGet(th, "purity_min_percent", DefaultPurityMin)
        scan_min == ThGet(th, "scan_duration_min_seconds", DefaultScanMin)
        contact_required == ThGet(th, "contact_required", TRUE)
    IN IF purity <= purity_min THEN "SANITY_FAIL:PURITY_TOO_LOW"
       ELSE IF scan_duration_s < scan_min THEN "SANITY_FAIL:SCAN_TOO_SHORT"
       ELSE IF contact_required /\ ~contact_ok
       THEN "SANITY_FAIL:CONTACT_NOT_OK"
       ELSE ""

\* the sanity thresholds, as "" or the reason of the first one that fails
sanity_fail(purity, scan_duration_s, contact_ok, thresholds) ==
    LET th == thresholds
        purity_min == ThGet(th, "purity_min_percent", DefaultPurityMin)
        scan_min == ThGet(th, "scan_duration_min_seconds", DefaultScanMin)
        contact_required == ThGet(th, "contact_required", TRUE)
    IN IF purity < purity_min THEN "SANITY_FAIL:PURITY_TOO_LOW"
       ELSE IF scan_duration_s < scan_min THEN "SANITY_FAIL:SCAN_TOO_SHORT"
       ELSE IF contact_required /\ ~contact_ok
       THEN "SANITY_FAIL:CONTACT_NOT_OK"
       ELSE ""

\* the details of the REJECT that a failed sanity threshold returns
sanity_details(reason, purity, scan_duration_s, contact_ok, thresholds, pc_id) ==
    IF reason = "SANITY_FAIL:PURITY_TOO_LOW"
    THEN [purity |-> purity,
          purity_min |-> ThGet(thresholds, "purity_min_percent",
                               DefaultPurityMin),
          pc_id |-> pc_id]
    ELSE IF reason = "SANITY_FAIL:SCAN_TOO_SHORT"
    THEN [scan_duration_s |-> scan_duration_s,
          scan_min |-> ThGet(thresholds, "scan_duration_min_seconds",
                             DefaultScanMin),
          pc_id |-> pc_id]
    ELSE [contact_ok |-> contact_ok, pc_id |-> pc_id]

\* a report handler that never consumes the identity
xrf_consume_nothing(uid, seq_id) ==
    [ret |-> "OK", by_uid |-> by_uid, by_seq |-> by_seq]

\* step 4 of handle_xrf_report: the identity is consumed
xrf_consume(uid, seq_id) == mark_used(uid, seq_id)

\* a report handler that consumes the identity as soon as it has validated,
\* before the sanity thresholds
handle_xrf_report_consume_first(uid, seq_id, purity, scan_duration_s, contact_ok, pc_id, ts_utc, thresholds, wall) ==
    LET state == get_fsm(uid)
        seq_status == validate(uid, seq_id, xrf_validate_now(ts_utc), wall)
        sanity == sanity_fail(purity, scan_duration_s, contact_ok, thresholds)
        tr == apply(state, "XRF_REPORT_ACCEPTED")
        after == apply_state(state, "XRF_REPORT_ACCEPTED")
        m == xrf_consume(uid, seq_id)
    IN IF xrf_state_gate(state)
       THEN Outcome(reject_simple(uid, state, "XRF_REPORT_ACCEPTED",
                                  "STATE_NOT_SEQ_BOUND", [pc_id |-> pc_id],
                                  wall),
                    "", state, counter, by_uid, by_seq)
       ELSE IF seq_status # "OK"
       THEN Outcome(reject_simple(uid, state, "XRF_REPORT_ACCEPTED",
                                  "SEQ_INVALID:" \o seq_status,
                                  [pc_id |-> pc_id, seq_id |-> seq_id], wall),
                    "", state, counter, by_uid, by_seq)
       ELSE IF sanity # ""
       THEN Outcome(reject_simple(uid, state, "XRF_REPORT_ACCEPTED", sanity,
                                  sanity_details(sanity, purity,
                                                 scan_duration_s, contact_ok,
                                                 thresholds, pc_id),
                                  wall),
                    "", state, counter, m.by_uid, m.by_seq)
       ELSE IF ~tr.accepted
       THEN Outcome(reject(uid, tr, tr.reason, [pc_id |-> pc_id], wall),
                    "", after, counter, m.by_uid, m.by_seq)
       ELSE Outcome(accept(uid, tr,
                           [pc_id |-> pc_id, seq_id |-> seq_id,
                            purity |-> purity,
                            scan_duration_s |-> scan_duration_s,
                            contact_ok |-> contact_ok],
                           wall),
                    "", after, counter, m.by_uid, m.by_seq)

handle_xrf_report(uid, seq_id, purity, scan_duration_s, contact_ok, pc_id, ts_utc, thresholds, wall) ==
    LET state == get_fsm(uid)
        seq_status == validate(uid, seq_id, xrf_validate_now(ts_utc), wall)
        sanity == sanity_fail(purity, scan_duration_s, contact_ok, thresholds)
        tr == apply(state, "XRF_REPORT_ACCEPTED")
        after == apply_state(state, "XRF_REPORT_ACCEPTED")
        m == xrf_consume(uid, seq_id)
    IN IF xrf_state_gate(state)
       THEN Outcome(reject_simple(uid, state, "XRF_REPORT_ACCEPTED",
                                  "STATE_NOT_SEQ_BOUND", [pc_id |-> pc_id],
                                  wall),
                    "", state, counter, by_uid, by_seq)
       ELSE IF seq_status # "OK"
       THEN Outcome(reject_simple(uid, state, "XRF_REPORT_ACCEPTED",
                                  "SEQ_INVALID:" \o seq_status,
                                  [pc_id |-> pc_id, seq_id |-> seq_id], wall),
                    "", state, counter, by_uid, by_seq)
       ELSE IF sanity # ""
       THEN Outcome(reject_simple(uid, state, "XRF_REPORT_ACCEPTED", sanity,
                                  sanity_details(sanity, purity,
                                                 scan_duration_s, contact_ok,
                                                 thresholds, pc_id),
                                  wall),
                    "", state, counter, by_uid, by_seq)
       ELSE IF ~tr.accepted
       THEN Outcome(reject(uid, tr, tr.reason, [pc_id |-> pc_id], wall),
                    "", after, counter, by_uid, by_seq)
       ELSE Outcome(accept(uid, tr,
                           [pc_id |-> pc_id, seq_id |-> seq_id,
                            purity |-> purity,
                            scan_duration_s |-> scan_duration_s,
                            contact_ok |-> contact_ok],
                           wall),
                    "", after, counter, m.by_uid, m.by_seq)

\* a gated handler that leaves the state test to the state machine
handle_gated_no_gate(uid, slot_id, ts_utc, wall, required, event, gate_reason) ==
    LET state == get_fsm(uid)
        tr == apply(state, event)
        after == apply_state(state, event)
        details == [slot_id |-> slot_id]
    IN IF ~tr.accepted
       THEN Outcome(reject(uid, tr, tr.reason, details, wall), "", after,
                    counter, by_uid, by_seq)
       ELSE Outcome(accept(uid, tr, details, wall), "", after,
                    counter, by_uid, by_seq)

\* handle_slot_assigned and handle_storage_confirmed: a state gate, then the
\* transition
handle_gated(uid, slot_id, ts_utc, wall, required, event, gate_reason) ==
    LET state == get_fsm(uid)
        tr == apply(state, event)
        after == apply_state(state, event)
        details == [slot_id |-> slot_id]
    IN IF state # required
       THEN Outcome(reject_simple(uid, state, event, gate_reason, details,
                                  wall),
                    "", state, counter, by_uid, by_seq)
       ELSE IF ~tr.accepted
       THEN Outcome(reject(uid, tr, tr.reason, details, wall), "", after,
                    counter, by_uid, by_seq)
       ELSE Outcome(accept(uid, tr, details, wall), "", after,
                    counter, by_uid, by_seq)

handle_slot_assigned(uid, slot_id, ts_utc, wall) ==
    handle_gated(uid, slot_id, ts_utc, wall, "XRF_VERIFIED", "SLOT_ASSIGNED",
                 "STATE_NOT_XRF_VERIFIED")

handle_storage_confirmed(uid, slot_id, ts_utc, wall) ==
    handle_gated(uid, slot_id, ts_utc, wall, "SLOT_BOUND",
                 "STORAGE_CONFIRMED", "STATE_NOT_SLOT_BOUND")

\* a motion handler that returns the transition result as an ordinary ACCEPT
handle_slot_motion_accepts(uid, slot_id, ts_utc, wall) ==
    LET state == get_fsm(uid)
        tr == apply(state, "SLOT_MOTION")
        after == apply_state(state, "SLOT_MOTION")
    IN Outcome(accept(uid, tr, [slot_id |-> slot_id], wall), "", after,
               counter, by_uid, by_seq)

handle_slot_motion(uid, slot_id, ts_utc, wall) ==
    LET state == get_fsm(uid)
        t == TsOr(ts_utc, wall)
        tr == apply(state, "SLOT_MOTION")
        after == apply_state(state, "SLOT_MOTION")
    IN Outcome(EnforcementDecision("ALERT", "SLOT_MOTION_DETECTED", uid,
                                   tr.prev_state, tr.next_state,
                                   "SLOT_MOTION", t, [slot_id |-> slot_id]),
               "", after, counter, by_uid, by_seq)


\* ------------------------------------------------------------- the calls

Call(op, uid, seq_id, purity, scan_duration_s, contact_ok, thresholds, ts_utc, now) ==
    [op |-> op, uid |-> uid, seq_id |-> seq_id, purity |-> purity,
     scan_duration_s |-> scan_duration_s, contact_ok |-> contact_ok,
     thresholds |-> thresholds, ts_utc |-> ts_utc, now |-> now]

\* a call of an operation that takes only a uid and a timestamp
SimpleCall(op, uid, ts_utc) ==
    Call(op, uid, 0, 0, 0, FALSE, NoThresholds, ts_utc, NoTime)

\* the latest call and what came back: an engine decision (or the exception
\* raised), or, as status, the value a direct call of the identity manager or
\* of a state machine returned, and the binding issue() returned
Last(call, decision, raised, status, binding) ==
    [call |-> call, decision |-> decision, raised |-> raised,
     status |-> status, binding |-> binding]

SanityReasons ==
    {"SANITY_FAIL:PURITY_TOO_LOW", "SANITY_FAIL:SCAN_TOO_SHORT",
     "SANITY_FAIL:CONTACT_NOT_OK"}

\* the entry a decision adds to the uid's record of accepted events
AcceptedEntry(d) == [event |-> d.event, details |-> d.details]

\* the concurrent callers
Threads == {"T1", "T2"}

\* a caller: pc is where it stands in its call, locals the call's local
\* variables, ret what the call returned
Thread(pc, call, locals, ret) ==
    [pc |-> pc, call |-> call, locals |-> locals, ret |-> ret]

\* a caller that has not called yet
IdleThread == Thread("idle", SimpleCall("none", "", NoTs), <<>>, NoDecision)

\* an engine call that keeps a machine for a new uid only after an RFID read
EngineStep_rfid_creates(call, wall, out) ==
    /\ clock' = wall
    /\ fsms' = IF call.uid \in DOMAIN fsms \/ call.op = "handle_rfid_read"
               THEN Put(fsms, call.uid, out.state)
               ELSE fsms
    /\ counter' = out.counter
    /\ by_uid' = out.by_uid
    /\ by_seq' = out.by_seq
    /\ last' = Last(call, out.decision, out.raised, "", NoBinding)
    /\ accepted' =
           IF out.decision.decision = "ACCEPT"
           THEN [accepted EXCEPT
                     ![call.uid] = Append(@, AcceptedEntry(out.decision))]
           ELSE accepted
    /\ sanity_rejected' =
           IF out.decision.reason \in SanityReasons
           THEN sanity_rejected \cup {call.uid}
           ELSE sanity_rejected
    /\ UNCHANGED threads

\* an engine whose uids all share the machine the call worked on
EngineStep_shared_machine(call, wall, out) ==
    /\ clock' = wall
    /\ fsms' = [u \in DOMAIN fsms \cup {call.uid} |-> out.state]
    /\ counter' = out.counter
    /\ by_uid' = out.by_uid
    /\ by_seq' = out.by_seq
    /\ last' = Last(call, out.decision, out.raised, "", NoBinding)
    /\ accepted' =
           IF out.decision.decision = "ACCEPT"
           THEN [accepted EXCEPT
                     ![call.uid] = Append(@, AcceptedEntry(out.decision))]
           ELSE accepted
    /\ sanity_rejected' =
           IF out.decision.reason \in SanityReasons
           THEN sanity_rejected \cup {call.uid}
           ELSE sanity_rejected
    /\ UNCHANGED threads

\* one engine call, start to end: the handler's decision or exception, the
\* machine _get_fsm stored for the uid, and the identity manager it left
EngineStep(call, wall, out) ==
    /\ clock' = wall
    /\ fsms' = Put(fsms, call.uid, out.state)
    /\ counter' = out.counter
    /\ by_uid' = out.by_uid
    /\ by_seq' = out.by_seq
    /\ last' = Last(call, out.decision, out.raised, "", NoBinding)
    /\ accepted' =
           IF out.decision.decision = "ACCEPT"
           THEN [accepted EXCEPT
                     ![call.uid] = Append(@, AcceptedEntry(out.decision))]
           ELSE accepted
    /\ sanity_rejected' =
           IF out.decision.reason \in SanityReasons
           THEN sanity_rejected \cup {call.uid}
           ELSE sanity_rejected
    /\ UNCHANGED threads

Init ==
    /\ fsms = <<>>
    /\ counter = start_counter
    /\ by_uid = <<>>
    /\ by_seq = <<>>
    /\ clock = 0
    /\ last = Last(SimpleCall("init", "", NoTs), NoDecision, "", "", NoBinding)
    /\ accepted = [u \in UIDs \cup BlankUIDs |-> <<>>]
    /\ sanity_rejected = {}
    /\ threads = [t \in Threads |-> IdleThread]

HandleRfidRead(uids, tss) ==
    \E uid \in uids, gateway_id \in GatewayIds, ts_utc \in tss, wall \in clock .. MaxClock :
        EngineStep(SimpleCall("handle_rfid_read", uid, ts_utc), wall,
                   handle_rfid_read(uid, gateway_id, ts_utc, wall))

HandleSeqRequest(uids, tss) ==
    \E uid \in uids, ts_utc \in tss, wall \in clock .. MaxClock :
        EngineStep(SimpleCall("handle_seq_request", uid, ts_utc), wall,
                   handle_seq_request(uid, ts_utc, wall))

HandleXrfReport(uids, tss) ==
    \E uid \in uids, seq_id \in SeqInputs, r \in XrfReports, pc_id \in PcIds, ts_utc \in tss, wall \in clock .. MaxClock :
        EngineStep(Call("handle_xrf_report", uid, seq_id, r.purity,
                        r.scan_duration_s, r.contact_ok, r.thresholds, ts_utc,
                        NoTime),
                   wall,
                   handle_xrf_report(uid, seq_id, r.purity, r.scan_duration_s,
                                     r.contact_ok, pc_id, ts_utc, r.thresholds,
                                     wall))

\* handle_xrf_report with the measurement and thresholds drawn from reports
HandleXrfReportFrom(uids, tss, reports) ==
    \E uid \in uids, seq_id \in SeqInputs, r \in reports, pc_id \in PcIds, ts_utc \in tss, wall \in clock .. MaxClock :
        EngineStep(Call("handle_xrf_report", uid, seq_id, r.purity,
                        r.scan_duration_s, r.contact_ok, r.thresholds, ts_utc,
                        NoTime),
                   wall,
                   handle_xrf_report(uid, seq_id, r.purity, r.scan_duration_s,
                                     r.contact_ok, pc_id, ts_utc, r.thresholds,
                                     wall))

HandleSlotAssigned(uids, tss) ==
    \E uid \in uids, slot_id \in SlotIds, ts_utc \in tss, wall \in clock .. MaxClock :
        EngineStep(SimpleCall("handle_slot_assigned", uid, ts_utc), wall,
                   handle_slot_assigned(uid, slot_id, ts_utc, wall))

HandleStorageConfirmed(uids, tss) ==
    \E uid \in uids, slot_id \in SlotIds, ts_utc \in tss, wall \in clock .. MaxClock :
        EngineStep(SimpleCall("handle_storage_confirmed", uid, ts_utc), wall,
                   handle_storage_confirmed(uid, slot_id, ts_utc, wall))

HandleSlotMotion(uids, tss) ==
    \E uid \in uids, slot_id \in SlotIds, ts_utc \in tss, wall \in clock .. MaxClock :
        EngineStep(SimpleCall("handle_slot_motion", uid, ts_utc), wall,
                   handle_slot_motion(uid, slot_id, ts_utc, wall))

Next ==
    \/ HandleRfidRead(UIDs, {NoTs})
    \/ HandleSeqRequest(UIDs, {NoTs})
    \/ HandleXrfReport(UIDs, {NoTs})
    \/ HandleSlotAssigned(UIDs, {NoTs})
    \/ HandleStorageConfirmed(UIDs, {NoTs})
    \/ HandleSlotMotion(UIDs, {NoTs})

\* the engine, called one operation at a time by callers that leave the
\* timestamp to the wall clock (experiments/test_engine.py)
Spec == Init /\ [][Next]_vars

NextTs ==
    \/ HandleRfidRead({"A"}, TsArgs)
    \/ HandleSeqRequest({"A"}, TsArgs)
    \/ HandleXrfReport({"A"}, TsArgs)
    \/ HandleSlotAssigned({"A"}, TsArgs)
    \/ HandleStorageConfirmed({"A"}, TsArgs)
    \/ HandleSlotMotion({"A"}, TsArgs)

\* the engine, called by callers that may supply the timestamp of each event
\* (experiments/run_attacks.py)
SpecTs == Init /\ [][NextTs]_vars


\* a direct call of the identity manager at wall-clock reading wall
MgrStep(call, wall, raised, status, binding, c, bu, bs) ==
    /\ clock' = wall
    /\ counter' = c
    /\ by_uid' = bu
    /\ by_seq' = bs
    /\ last' = Last(call, NoDecision, raised, status, binding)
    /\ UNCHANGED <<fsms, accepted, sanity_rejected, threads>>

MgrCall(op, uid, seq_id, now) ==
    Call(op, uid, seq_id, 0, 0, FALSE, NoThresholds, NoTs, now)

MgrIssue ==
    \E uid \in MgrUIDs, issued_at \in TimeArgs, wall \in clock .. MaxClock :
        LET i == issue(uid, issued_at, wall)
        IN /\ i.counter <= start_counter + MaxAlloc
           /\ MgrStep(MgrCall("issue", uid, 0, issued_at), wall, i.raised,
                      "", i.ret, i.counter, i.by_uid, i.by_seq)

MgrValidate ==
    \E uid \in MgrUIDs, seq_id \in SeqInputs, now \in TimeArgs, wall \in clock .. MaxClock :
        MgrStep(MgrCall("validate", uid, seq_id, now), wall, "",
                validate(uid, seq_id, now, wall), NoBinding, counter, by_uid,
                by_seq)

MgrMarkUsed ==
    \E uid \in MgrUIDs, seq_id \in SeqInputs, wall \in clock .. MaxClock :
        LET m == mark_used(uid, seq_id)
        IN MgrStep(MgrCall("mark_used", uid, seq_id, NoTime), wall, "",
                   m.ret, NoBinding, counter, m.by_uid, m.by_seq)

NextMgr ==
    \/ MgrIssue
    \/ MgrValidate
    \/ MgrMarkUsed

\* the identity manager alone, called directly with any arguments
\* (experiments/test_seqid.py)
SpecMgr == Init /\ [][NextMgr]_vars


\* issue() called directly with an empty or whitespace-only uid
MgrIssueBlank ==
    \E uid \in BlankUIDs, issued_at \in TimeArgs, wall \in clock .. MaxClock :
        LET i == issue(uid, issued_at, wall)
        IN MgrStep(MgrCall("issue", uid, 0, issued_at), wall, i.raised, "",
                   i.ret, i.counter, i.by_uid, i.by_seq)

NextBlank ==
    \/ HandleRfidRead(BlankEngineUIDs, {NoTs})
    \/ HandleSeqRequest(BlankEngineUIDs, {NoTs})
    \/ HandleXrfReport(BlankEngineUIDs, {NoTs})
    \/ HandleSlotAssigned(BlankEngineUIDs, {NoTs})
    \/ HandleStorageConfirmed(BlankEngineUIDs, {NoTs})
    \/ HandleSlotMotion(BlankEngineUIDs, {NoTs})
    \/ MgrIssueBlank

\* the engine and its identity manager, called with uids of which some are
\* empty or whitespace-only
SpecBlank == Init /\ [][NextBlank]_vars

\* the state machines driven directly (experiments/test_fsm.py)
Machines == {"fsm", "fsm2"}

FsmCall(op, m, event) == [op |-> op, uid |-> m, event |-> event]

InitFsm ==
    /\ fsms = [m \in Machines |-> AssetState[1]]
    /\ counter = start_counter
    /\ by_uid = <<>>
    /\ by_seq = <<>>
    /\ clock = 0
    /\ last = Last(FsmCall("init", "", ""), NoDecision, "", "", NoBinding)
    /\ accepted = [u \in UIDs \cup BlankUIDs |-> <<>>]
    /\ sanity_rejected = {}
    /\ threads = [t \in Threads |-> IdleThread]

\* a direct call on machine m that returns result and leaves it in state
FsmStep(call, result, state) ==
    /\ fsms' = [fsms EXCEPT ![call.uid] = state]
    /\ last' = Last(call, NoDecision, "", result, NoBinding)
    /\ UNCHANGED <<counter, by_uid, by_seq, clock, accepted, sanity_rejected, threads>>

FsmApply ==
    \E m \in Machines, event \in EventType :
        FsmStep(FsmCall("apply", m, event), apply(fsms[m], event),
                apply_state(fsms[m], event))

FsmCanApply ==
    \E m \in Machines, event \in EventType :
        FsmStep(FsmCall("can_apply", m, event), can_apply(fsms[m], event),
                fsms[m])

NextFsm ==
    \/ FsmApply
    \/ FsmCanApply

\* two lifecycle state machines, each given any event in any order
SpecFsm == InitFsm /\ [][NextFsm]_vars

NextSanity ==
    \/ HandleRfidRead({"A"}, {NoTs})
    \/ HandleSeqRequest({"A"}, {NoTs})
    \/ HandleXrfReportFrom({"A"}, {NoTs}, SanityReports)

\* one asset taken to SEQ_BOUND and presented reports whose measurements lie
\* at and around the thresholds, supplied or defaulted
SpecSanity == Init /\ [][NextSanity]_vars

\* ------------------------------------------- concurrent callers, no locks
\* Neither the engine nor the identity manager takes a lock, so the calls of
\* two callers interleave between any two reads or writes of shared state.

AllIdle == \A t \in Threads : threads[t].pc = "idle"

\* caller t moves on inside its call; nothing returns yet
ThreadGoes(t, pc, locals) ==
    /\ threads' = [threads EXCEPT ![t] = Thread(pc, @.call, locals, @.ret)]
    /\ UNCHANGED <<last, accepted, sanity_rejected>>

\* caller t's engine call returns decision
ThreadReturns(t, decision) ==
    /\ threads' = [threads EXCEPT
                       ![t] = Thread("returned", @.call, @.locals, decision)]
    /\ last' = Last(threads[t].call, decision, "", "", NoBinding)
    /\ accepted' =
           IF decision.decision = "ACCEPT"
           THEN [accepted EXCEPT
                     ![threads[t].call.uid] = Append(@, AcceptedEntry(decision))]
           ELSE accepted
    /\ sanity_rejected' =
           IF decision.reason \in SanityReasons
           THEN sanity_rejected \cup {threads[t].call.uid}
           ELSE sanity_rejected

\* handle_xrf_report is entered for an asset the engine has a machine for
XrfEnter(t) ==
    \E uid \in DOMAIN fsms, seq_id \in SeqInputs, r \in XrfReports :
        /\ threads[t].pc = "idle"
        /\ threads' =
               [threads EXCEPT
                   ![t] = Thread("gate",
                                 Call("handle_xrf_report", uid, seq_id,
                                      r.purity, r.scan_duration_s,
                                      r.contact_ok, r.thresholds, NoTs, NoTime),
                                 <<>>, NoDecision)]
        /\ UNCHANGED <<fsms, counter, by_uid, by_seq, clock, last, accepted, sanity_rejected>>

\* `if fsm.state != AssetState.SEQ_BOUND`
XrfGate(t) ==
    \E pc_id \in PcIds, wall \in clock .. MaxClock :
        LET c == threads[t].call
            state == fsms[c.uid]
        IN /\ threads[t].pc = "gate"
           /\ IF xrf_state_gate(state)
              THEN /\ clock' = wall
                   /\ ThreadReturns(t, reject_simple(c.uid, state,
                                        "XRF_REPORT_ACCEPTED",
                                        "STATE_NOT_SEQ_BOUND",
                                        [pc_id |-> pc_id], wall))
              ELSE /\ clock' = clock
                   /\ ThreadGoes(t, "validate", [state |-> state])
           /\ UNCHANGED <<fsms, counter, by_uid, by_seq>>

\* `seq_status = self.seq.validate(uid, seq_id)` and the sanity thresholds,
\* which read nothing shared
XrfValidate(t) ==
    \E pc_id \in PcIds, wall \in clock .. MaxClock :
        LET c == threads[t].call
            state == threads[t].locals.state
            seq_status == validate(c.uid, c.seq_id, xrf_validate_now(c.ts_utc),
                                   wall)
            sanity == sanity_fail(c.purity, c.scan_duration_s, c.contact_ok,
                                  c.thresholds)
        IN /\ threads[t].pc = "validate"
           /\ clock' = wall
           /\ IF seq_status # "OK"
              THEN ThreadReturns(t, reject_simple(c.uid, state,
                                       "XRF_REPORT_ACCEPTED",
                                       "SEQ_INVALID:" \o seq_status,
                                       [pc_id |-> pc_id, seq_id |-> c.seq_id],
                                       wall))
              ELSE IF sanity # ""
              THEN ThreadReturns(t, reject_simple(c.uid, state,
                                       "XRF_REPORT_ACCEPTED", sanity,
                                       sanity_details(sanity, c.purity,
                                                      c.scan_duration_s,
                                                      c.contact_ok,
                                                      c.thresholds, pc_id),
                                       wall))
              ELSE ThreadGoes(t, "apply_read", <<>>)
           /\ UNCHANGED <<fsms, counter, by_uid, by_seq>>

\* fsm.apply: `prev = self._state` and the allow-list lookup
XrfApplyRead(t) ==
    \E pc_id \in PcIds, wall \in clock .. MaxClock :
        LET c == threads[t].call
            tr == apply(fsms[c.uid], "XRF_REPORT_ACCEPTED")
        IN /\ threads[t].pc = "apply_read"
           /\ IF ~tr.accepted
              THEN /\ clock' = wall
                   /\ ThreadReturns(t, reject(c.uid, tr, tr.reason,
                                              [pc_id |-> pc_id], wall))
              ELSE /\ clock' = clock
                   /\ ThreadGoes(t, "apply_write", [tr |-> tr])
           /\ UNCHANGED <<fsms, counter, by_uid, by_seq>>

\* fsm.apply: `self._state = nxt`
XrfApplyWrite(t) ==
    LET c == threads[t].call
        tr == threads[t].locals.tr
    IN /\ threads[t].pc = "apply_write"
       /\ fsms' = Put(fsms, c.uid, tr.next_state)
       /\ ThreadGoes(t, "mark_read", [tr |-> tr])
       /\ UNCHANGED <<counter, by_uid, by_seq, clock>>

\* mark_used: `b = self._by_uid.get(uid)` and its two tests
XrfMarkRead(t) ==
    LET c == threads[t].call
        tr == threads[t].locals.tr
    IN /\ threads[t].pc = "mark_read"
       /\ IF c.uid \notin DOMAIN by_uid \/ by_uid[c.uid].seq_id # c.seq_id
          THEN ThreadGoes(t, "accept", [tr |-> tr])
          ELSE ThreadGoes(t, "mark_write", [tr |-> tr, b |-> by_uid[c.uid]])
       /\ UNCHANGED <<fsms, counter, by_uid, by_seq, clock>>

\* mark_used: the used copy is stored in both indexes
XrfMarkWrite(t) ==
    LET c == threads[t].call
        b == threads[t].locals.b
        used_binding ==
            SeqBinding(b.uid, b.seq_id, b.issued_at, b.expires_at, TRUE)
    IN /\ threads[t].pc = "mark_write"
       /\ by_uid' = Put(by_uid, c.uid, used_binding)
       /\ by_seq' = Put(by_seq, c.seq_id, used_binding)
       /\ ThreadGoes(t, "accept", [tr |-> threads[t].locals.tr])
       /\ UNCHANGED <<fsms, counter, clock>>

\* `return self._accept(uid, tr, details=...)`
XrfAccept(t) ==
    \E pc_id \in PcIds, wall \in clock .. MaxClock :
        LET c == threads[t].call
        IN /\ threads[t].pc = "accept"
           /\ clock' = wall
           /\ ThreadReturns(t, accept(c.uid, threads[t].locals.tr,
                                      [pc_id |-> pc_id, seq_id |-> c.seq_id,
                                       purity |-> c.purity,
                                       scan_duration_s |-> c.scan_duration_s,
                                       contact_ok |-> c.contact_ok],
                                      wall))
           /\ UNCHANGED <<fsms, counter, by_uid, by_seq>>

NextXrfRace ==
    \/ AllIdle /\ HandleRfidRead({"A"}, {NoTs})
    \/ AllIdle /\ HandleSeqRequest({"A"}, {NoTs})
    \/ \E t \in Threads : XrfEnter(t)
    \/ \E t \in Threads : XrfGate(t)
    \/ \E t \in Threads : XrfValidate(t)
    \/ \E t \in Threads : XrfApplyRead(t)
    \/ \E t \in Threads : XrfApplyWrite(t)
    \/ \E t \in Threads : XrfMarkRead(t)
    \/ \E t \in Threads : XrfMarkWrite(t)
    \/ \E t \in Threads : XrfAccept(t)

\* an asset is read and bound by one caller; then two callers each make one
\* handle_xrf_report call, their steps interleaved
SpecXrfRace == Init /\ [][NextXrfRace]_vars

\* caller t's issue() call returns binding
IssueReturns(t, binding) ==
    /\ threads' = [threads EXCEPT
                       ![t] = Thread("returned", @.call, @.locals, binding)]
    /\ last' = Last(threads[t].call, NoDecision, "", "", binding)
    /\ UNCHANGED <<accepted, sanity_rejected>>

\* issue(uid, issued_at) is entered: the uid test and
\* `t0 = issued_at or self.now_utc()`
IssueEnter(t) ==
    \E uid \in UIDs, issued_at \in TimeArgs, wall \in clock .. MaxClock :
        /\ threads[t].pc = "idle"
        /\ ~is_blank(uid)
        /\ clock' = wall
        /\ threads' =
               [threads EXCEPT
                   ![t] = Thread("lookup", MgrCall("issue", uid, 0, issued_at),
                                 [t0 |-> TimeOr(issued_at, wall)], NoBinding)]
        /\ UNCHANGED <<fsms, counter, by_uid, by_seq, last, accepted, sanity_rejected>>

\* `existing = self._by_uid.get(uid)` and the test for returning it
IssueLookup(t) ==
    LET c == threads[t].call
        t0 == threads[t].locals.t0
    IN /\ threads[t].pc = "lookup"
       /\ IF issue_reuses(c.uid, t0, t0)
          THEN IssueReturns(t, by_uid[c.uid])
          ELSE ThreadGoes(t, "read_counter", [t0 |-> t0])
       /\ UNCHANGED <<fsms, counter, by_uid, by_seq, clock>>

\* `seq = self._counter`
IssueReadCounter(t) ==
    /\ threads[t].pc = "read_counter"
    /\ ThreadGoes(t, "load_counter",
                  [t0 |-> threads[t].locals.t0, seq |-> counter])
    /\ UNCHANGED <<fsms, counter, by_uid, by_seq, clock>>

\* `self._counter += 1`: the counter is loaded
IssueLoadCounter(t) ==
    /\ threads[t].pc = "load_counter"
    /\ ThreadGoes(t, "store_counter",
                  [t0 |-> threads[t].locals.t0, seq |-> threads[t].locals.seq,
                   loaded |-> counter])
    /\ UNCHANGED <<fsms, counter, by_uid, by_seq, clock>>

\* `self._counter += 1`: the sum is stored; then the binding is built
IssueStoreCounter(t) ==
    LET c == threads[t].call
        l == threads[t].locals
    IN /\ threads[t].pc = "store_counter"
       /\ counter' = l.loaded + 1
       /\ ThreadGoes(t, "store_by_uid",
                     [binding |-> SeqBinding(c.uid, l.seq, l.t0,
                                             l.t0 + validity, FALSE)])
       /\ UNCHANGED <<fsms, by_uid, by_seq, clock>>

\* `self._by_uid[uid] = binding`
IssueStoreByUid(t) ==
    /\ threads[t].pc = "store_by_uid"
    /\ by_uid' = Put(by_uid, threads[t].call.uid, threads[t].locals.binding)
    /\ ThreadGoes(t, "store_by_seq", threads[t].locals)
    /\ UNCHANGED <<fsms, counter, by_seq, clock>>

\* `self._by_seq[seq] = binding` and `return binding`
IssueStoreBySeq(t) ==
    LET binding == threads[t].locals.binding
    IN /\ threads[t].pc = "store_by_seq"
       /\ by_seq' = Put(by_seq, binding.seq_id, binding)
       /\ IssueReturns(t, binding)
       /\ UNCHANGED <<fsms, counter, by_uid, clock>>

NextIssueRace ==
    \/ \E t \in Threads : IssueEnter(t)
    \/ \E t \in Threads : IssueLookup(t)
    \/ \E t \in Threads : IssueReadCounter(t)
    \/ \E t \in Threads : IssueLoadCounter(t)
    \/ \E t \in Threads : IssueStoreCounter(t)
    \/ \E t \in Threads : IssueStoreByUid(t)
    \/ \E t \in Threads : IssueStoreBySeq(t)

\* two callers each make one issue() call on a new identity manager, their
\* steps interleaved
SpecIssueRace == Init /\ [][NextIssueRace]_vars

\* ------------------------------------------------------------ the claims

HappyPath ==
    <<"RFID_READ", "SEQ_ASSIGNED", "XRF_REPORT_ACCEPTED", "SLOT_ASSIGNED",
      "STORAGE_CONFIRMED">>

AcceptedEvents(u) == [i \in DOMAIN accepted[u] |-> accepted[u][i].event]

\* the position of a state along the happy path, from 1
StateIndex(state) == CHOOSE i \in DOMAIN AssetState : AssetState[i] = state

\* the accepted verification reports of uid u that presented seq_id s
XrfAccepts(u, s) ==
    {i \in DOMAIN accepted[u] :
        /\ accepted[u][i].event = "XRF_REPORT_ACCEPTED"
        /\ accepted[u][i].details.seq_id = s}

IsXrfCall == last.call.op = "handle_xrf_report"

\* C1: for every uid the events decided ACCEPT so far are a prefix of the
\* happy path and the asset stands exactly that many steps along the chain
\* of states; every step leaves each asset where it was or moves it one
\* state forward, so nothing is skipped, nothing moves back and STORED is
\* absorbing.
C1_AcceptedPrefix ==
    /\ [](\A u \in UIDs :
            /\ Len(accepted[u]) <= Len(HappyPath)
            /\ AcceptedEvents(u) = SubSeq(HappyPath, 1, Len(accepted[u]))
            /\ get_fsm(u) = AssetState[Len(accepted[u]) + 1])
    /\ [][\A u \in UIDs :
            \/ get_fsm(u)' = get_fsm(u)
            \/ /\ StateIndex(get_fsm(u)) < Len(AssetState)
               /\ get_fsm(u)' = AssetState[StateIndex(get_fsm(u)) + 1]]_vars

\* one asset is STORED after its five accepted events and a further
\* transition event on it has been rejected, while the other asset is
\* part-way along
C1_Witness ==
    \E u \in UIDs, v \in UIDs :
        /\ u # v
        /\ get_fsm(u) = "STORED"
        /\ AcceptedEvents(u) = HappyPath
        /\ last.call.uid = u
        /\ last.decision.decision = "REJECT"
        /\ get_fsm(v) = "SEQ_BOUND"

\* C2: no (uid, seq_id) has more than one accepted verification report, and
\* a stored binding, in either index, is used exactly when a report
\* presenting its (uid, seq_id) has been accepted.
C2_OneTimeUse ==
    /\ \A u \in UIDs, s \in SeqInputs : Cardinality(XrfAccepts(u, s)) <= 1
    /\ \A u \in DOMAIN by_uid :
           by_uid[u].used <=> XrfAccepts(u, by_uid[u].seq_id) # {}
    /\ \A s \in DOMAIN by_seq :
           by_seq[s].used <=> XrfAccepts(by_seq[s].uid, s) # {}

\* a report presenting an already accepted (uid, seq_id) has just been
\* turned away
C2_Witness ==
    /\ IsXrfCall
    /\ last.decision.decision = "REJECT"
    /\ last.call.uid \in DOMAIN by_uid
    /\ by_uid[last.call.uid].used
    /\ XrfAccepts(last.call.uid, last.call.seq_id) # {}

\* the latest call is a verification report presenting a (uid, seq_id) that
\* an earlier report was accepted with
IsReplay ==
    /\ IsXrfCall
    /\ Cardinality(XrfAccepts(last.call.uid, last.call.seq_id))
           > (IF last.decision.decision = "ACCEPT" THEN 1 ELSE 0)

\* the latest report carries the measurement of the accepted one
SameMeasurement ==
    \E i \in XrfAccepts(last.call.uid, last.call.seq_id) :
        LET d == accepted[last.call.uid][i].details
        IN /\ d.purity = last.call.purity
           /\ d.scan_duration_s = last.call.scan_duration_s
           /\ d.contact_ok = last.call.contact_ok

\* C3 as stated: the replay of an accepted report is rejected with
\* SEQ_INVALID:ALREADY_USED and the state remains XRF_VERIFIED.
C3_ReplayAlreadyUsed ==
    (IsReplay /\ SameMeasurement /\ last.decision.prev_state = "XRF_VERIFIED")
        => /\ last.decision.decision = "REJECT"
           /\ last.decision.reason = "SEQ_INVALID:ALREADY_USED"
           /\ get_fsm(last.call.uid) = "XRF_VERIFIED"

\* C3 amended: the replay of an accepted report, with any measurement, is
\* rejected by the state gate with STATE_NOT_SEQ_BOUND; the asset stays in
\* the state it had (XRF_VERIFIED or later) and the binding stays used.
C3_ReplayStateGate ==
    IsReplay
        => /\ last.decision.decision = "REJECT"
           /\ last.decision.reason = "STATE_NOT_SEQ_BOUND"
           /\ last.decision.prev_state = last.decision.next_state
           /\ get_fsm(last.call.uid) = last.decision.prev_state
           /\ StateIndex(get_fsm(last.call.uid)) >= StateIndex("XRF_VERIFIED")
           /\ get_fsm(last.call.uid)
                  = AssetState[Len(accepted[last.call.uid]) + 1]
           /\ by_uid[last.call.uid].used

\* the accepted report has been presented again, unchanged, to an asset
\* still in XRF_VERIFIED
C3_Witness ==
    /\ IsReplay
    /\ SameMeasurement
    /\ last.decision.decision = "REJECT"
    /\ get_fsm(last.call.uid) = "XRF_VERIFIED"

\* the latest call is a report on an asset in SEQ_BOUND that presents the
\* seq_id issued to that uid
PresentsOwnSeq ==
    /\ IsXrfCall
    /\ last.decision.prev_state = "SEQ_BOUND"
    /\ last.call.uid \in DOMAIN by_uid
    /\ by_uid[last.call.uid].seq_id = last.call.seq_id

\* C4: a report on an asset in SEQ_BOUND that presents the uid's own seq_id
\* when the wall clock is past expires_at is rejected with
\* SEQ_INVALID:EXPIRED whatever it measures; the asset stays in SEQ_BOUND
\* and the binding unused.
C4_ExpiredRejected ==
    (PresentsOwnSeq /\ clock > by_uid[last.call.uid].expires_at)
        => /\ last.decision.decision = "REJECT"
           /\ last.decision.reason = "SEQ_INVALID:EXPIRED"
           /\ last.decision.next_state = "SEQ_BOUND"
           /\ get_fsm(last.call.uid) = "SEQ_BOUND"
           /\ ~by_uid[last.call.uid].used

\* the measurement of report call c meets the thresholds that apply to it:
\* those supplied with the call, the defaults for the ones left out
MeetsThresholds(c) ==
    /\ c.purity >= ThGet(c.thresholds, "purity_min_percent", DefaultPurityMin)
    /\ c.scan_duration_s
           >= ThGet(c.thresholds, "scan_duration_min_seconds", DefaultScanMin)
    /\ ThGet(c.thresholds, "contact_required", TRUE) => c.contact_ok

\* a report that meets every threshold was presented past the window
C4_Witness ==
    /\ PresentsOwnSeq
    /\ clock > by_uid[last.call.uid].expires_at
    /\ MeetsThresholds(last.call)
    /\ last.decision.reason = "SEQ_INVALID:EXPIRED"


\* the instant an ISO timestamp string names
TsTime(ts_utc) == ts_utc[2]

\* C5: the supplied timestamp is the engine's clock: a binding issued by a
\* seq request that supplies ts_utc is issued at that instant and expires one
\* validity window after it, and a report that supplies ts_utc and presents
\* the uid's own seq_id in SEQ_BOUND is rejected as EXPIRED exactly when that
\* instant is later than expires_at.
C5_SuppliedTimeDecides ==
    /\ (/\ last.call.op = "handle_seq_request"
        /\ last.decision.decision = "ACCEPT"
        /\ last.call.ts_utc # NoTs)
           => /\ by_uid[last.call.uid].issued_at = TsTime(last.call.ts_utc)
              /\ by_uid[last.call.uid].expires_at
                     = TsTime(last.call.ts_utc) + validity
              /\ last.decision.details.expires_at
                     = isoformat(TsTime(last.call.ts_utc) + validity)
    /\ (PresentsOwnSeq /\ last.call.ts_utc # NoTs)
           => (last.decision.reason = "SEQ_INVALID:EXPIRED"
                   <=> TsTime(last.call.ts_utc)
                           > by_uid[last.call.uid].expires_at)

\* C6: a report rejected by a sanity threshold leaves the asset in SEQ_BOUND
\* and its binding unused; and a report on an asset that had such a
\* rejection, presenting the same seq_id within the window with a measurement
\* that meets the thresholds, is accepted and moves it to XRF_VERIFIED.
C6_SanityRejectKeepsIdentity ==
    /\ (IsXrfCall /\ last.decision.reason \in SanityReasons)
           => /\ last.decision.decision = "REJECT"
              /\ last.decision.prev_state = "SEQ_BOUND"
              /\ last.decision.next_state = "SEQ_BOUND"
              /\ get_fsm(last.call.uid) = "SEQ_BOUND"
              /\ last.call.uid \in DOMAIN by_uid
              /\ by_uid[last.call.uid].seq_id = last.call.seq_id
              /\ ~by_uid[last.call.uid].used
              /\ ~by_seq[last.call.seq_id].used
              /\ ~MeetsThresholds(last.call)
    /\ (/\ PresentsOwnSeq
        /\ last.call.uid \in sanity_rejected
        /\ clock <= by_uid[last.call.uid].expires_at
        /\ MeetsThresholds(last.call))
           => /\ last.decision.decision = "ACCEPT"
              /\ last.decision.next_state = "XRF_VERIFIED"
              /\ get_fsm(last.call.uid) = "XRF_VERIFIED"

\* a corrected report has been accepted after a sanity rejection
C6_Witness ==
    /\ PresentsOwnSeq
    /\ last.call.uid \in sanity_rejected
    /\ MeetsThresholds(last.call)
    /\ last.decision.decision = "ACCEPT"
    /\ get_fsm(last.call.uid) = "XRF_VERIFIED"

\* C7: a step that is a report presenting a seq_id issued to another uid is
\* decided REJECT and changes no asset's state, no binding and not the
\* counter.
C7_SeqBoundToUid ==
    [][(/\ last'.call.op = "handle_xrf_report"
        /\ last'.call.seq_id \in DOMAIN by_seq
        /\ by_seq[last'.call.seq_id].uid # last'.call.uid)
           => /\ last'.decision.decision = "REJECT"
              /\ \A u \in UIDs : get_fsm(u)' = get_fsm(u)
              /\ by_uid' = by_uid
              /\ by_seq' = by_seq
              /\ counter' = counter]_vars

\* an asset in SEQ_BOUND presented the live seq_id of another asset and was
\* turned away as a mismatch
C7_Witness ==
    /\ IsXrfCall
    /\ last.call.seq_id \in DOMAIN by_seq
    /\ by_seq[last.call.seq_id].uid # last.call.uid
    /\ ~by_seq[last.call.seq_id].used
    /\ clock <= by_seq[last.call.seq_id].expires_at
    /\ MeetsThresholds(last.call)
    /\ last.decision.reason = "SEQ_INVALID:SEQ_MISMATCH"

\* the latest call is operation op on uid u and was decided ACCEPT, leaving
\* the asset in state
AcceptedInto(op, u, state) ==
    /\ last.call.op = op
    /\ last.call.uid = u
    /\ last.decision.decision = "ACCEPT"
    /\ get_fsm(u) = state

\* C8: whatever else has been called, each step of the happy path is
\* accepted: an RFID read of an unseen or unregistered uid, a seq request in
\* RFID_VERIFIED, a report in SEQ_BOUND that presents the seq_id of the seq
\* request's decision within the window and meets the thresholds, a slot
\* assignment in XRF_VERIFIED and a storage confirmation in SLOT_BOUND; each
\* moves the asset one state on, the last into STORED.
C8_HappyPathAccepted ==
    [][\A u \in UIDs :
        /\ (last'.call.op = "handle_rfid_read" /\ last'.call.uid = u
                /\ get_fsm(u) = "UNREGISTERED")
               => AcceptedInto("handle_rfid_read", u, "RFID_VERIFIED")'
        /\ (last'.call.op = "handle_seq_request" /\ last'.call.uid = u
                /\ get_fsm(u) = "RFID_VERIFIED")
               => /\ AcceptedInto("handle_seq_request", u, "SEQ_BOUND")'
                  /\ last'.decision.details.seq_id = by_uid'[u].seq_id
        /\ (last'.call.op = "handle_xrf_report" /\ last'.call.uid = u
                /\ get_fsm(u) = "SEQ_BOUND"
                /\ Len(accepted[u]) >= 2
                /\ last'.call.seq_id = accepted[u][2].details.seq_id
                /\ clock' <= TsTime(accepted[u][2].details.expires_at)
                /\ MeetsThresholds(last'.call))
               => AcceptedInto("handle_xrf_report", u, "XRF_VERIFIED")'
        /\ (last'.call.op = "handle_slot_assigned" /\ last'.call.uid = u
                /\ get_fsm(u) = "XRF_VERIFIED")
               => AcceptedInto("handle_slot_assigned", u, "SLOT_BOUND")'
        /\ (last'.call.op = "handle_storage_confirmed" /\ last'.call.uid = u
                /\ get_fsm(u) = "SLOT_BOUND")
               => AcceptedInto("handle_storage_confirmed", u, "STORED")'
      ]_vars

\* one asset has gone the whole path, its storage confirmation just accepted,
\* while calls on the other asset were accepted in between
C8_Witness ==
    \E u \in UIDs, v \in UIDs :
        /\ u # v
        /\ AcceptedInto("handle_storage_confirmed", u, "STORED")
        /\ AcceptedEvents(u) = HappyPath
        /\ get_fsm(v) = "XRF_VERIFIED"


\* C9: a step that is validate(uid, seq_id, now) returns OK exactly when a
\* binding is stored for uid, its seq_id is the presented one, now is not
\* later than expires_at and it is unused; otherwise the first failing
\* reason in the order NO_BINDING_FOR_UID, SEQ_MISMATCH, EXPIRED,
\* ALREADY_USED; and it leaves the counter and both indexes as they were.
C9_ValidateVerdict ==
    [][last'.call.op = "validate" =>
        LET u == last'.call.uid
            t == TimeOr(last'.call.now, clock')
            has == u \in DOMAIN by_uid
            match == has /\ by_uid[u].seq_id = last'.call.seq_id
            fresh == match /\ t <= by_uid[u].expires_at
            unused == fresh /\ ~by_uid[u].used
        IN /\ last'.status = "OK" <=> unused
           /\ ~has => last'.status = "NO_BINDING_FOR_UID"
           /\ (has /\ ~match) => last'.status = "SEQ_MISMATCH"
           /\ (match /\ ~fresh) => last'.status = "EXPIRED"
           /\ (fresh /\ ~unused) => last'.status = "ALREADY_USED"
           /\ UNCHANGED mgr_vars]_vars

\* a binding validated OK at the very instant it expires
C9_Witness ==
    /\ last.call.op = "validate"
    /\ last.status = "OK"
    /\ TimeOr(last.call.now, clock) = by_uid[last.call.uid].expires_at

\* C10: a step that is issue(uid, now) while the binding stored for uid is
\* unexpired as of now and unused returns that binding and leaves the counter
\* and both indexes as they were.
C10_IdempotentIssue ==
    [][(/\ last'.call.op = "issue"
        /\ last'.call.uid \in DOMAIN by_uid
        /\ TimeOr(last'.call.now, clock')
               <= by_uid[last'.call.uid].expires_at
        /\ ~by_uid[last'.call.uid].used)
           => /\ last'.raised = ""
              /\ last'.binding = by_uid[last'.call.uid]
              /\ UNCHANGED mgr_vars]_vars

\* issue returned a binding that had been issued at another instant than
\* the one of this call, and allocated nothing
C10_Witness ==
    /\ last.call.op = "issue"
    /\ last.call.uid \in DOMAIN by_uid
    /\ last.binding = by_uid[last.call.uid]
    /\ last.binding.issued_at # TimeOr(last.call.now, clock)
    /\ counter = last.binding.seq_id + 1

\* the bindings stored in the seq_id index
StoredBySeq == {by_seq[s] : s \in DOMAIN by_seq}

\* C11: seq_ids are globally unique and increasing.  The seq_ids stored are
\* exactly those from start_counter up to the counter, each stored under its
\* own number and each uid's binding under a number of the index; no step
\* drops a seq_id or rebinds it to another uid; and an issue call that returns
\* a binding not stored before returns one whose seq_id is greater than every
\* seq_id allocated before, and moves the counter past it.
C11_SeqIdsIncrease ==
    /\ [](/\ DOMAIN by_seq = start_counter .. (counter - 1)
          /\ \A s \in DOMAIN by_seq : by_seq[s].seq_id = s
          /\ \A u \in DOMAIN by_uid :
                 /\ by_uid[u].seq_id \in DOMAIN by_seq
                 /\ by_seq[by_uid[u].seq_id].uid = u)
    /\ [][/\ \A s \in DOMAIN by_seq :
                 s \in DOMAIN by_seq' /\ by_seq'[s].uid = by_seq[s].uid
          /\ (/\ last'.call.op = "issue"
              /\ last'.raised = ""
              /\ last'.binding \notin StoredBySeq)
                 => /\ \A s \in DOMAIN by_seq : last'.binding.seq_id > s
                    /\ last'.binding.seq_id = counter
                    /\ counter' = counter + 1
                    /\ by_seq'[counter] = last'.binding]_vars

\* the latest issue call allocated the last seq_id the bound allows, for
\* another uid than the one holding the first seq_id
C11_Witness ==
    /\ last.call.op = "issue"
    /\ counter = start_counter + MaxAlloc
    /\ last.binding.seq_id = counter - 1
    /\ by_seq[start_counter].uid # last.binding.uid
    /\ Cardinality(DOMAIN by_seq) = MaxAlloc

\* the bindings stored for uid u, in either index, that are unused and
\* unexpired as of instant t
ActiveBindings(u, t) ==
    {b \in StoredBySeq \cup {by_uid[x] : x \in DOMAIN by_uid} :
        b.uid = u /\ ~b.used /\ t <= b.expires_at}

\* C12: in every state of the identity manager, every uid has at most one
\* stored binding, over both indexes, that is unused and unexpired as of the
\* current time.
C12_AtMostOneActive ==
    \A u \in MgrUIDs : Cardinality(ActiveBindings(u, clock)) <= 1

\* C13: a step whose call is decided REJECT reports next_state equal to
\* prev_state, both the state the asset had before the call, leaves every
\* asset's machine in the state it had, and leaves the counter and both
\* indexes of the identity manager, used flags included, as they were.
C13_RejectChangesNothing ==
    [][last'.decision.decision = "REJECT"
        => /\ last'.decision.next_state = last'.decision.prev_state
           /\ last'.decision.prev_state = get_fsm(last'.call.uid)
           /\ \A u \in UIDs : get_fsm(u)' = get_fsm(u)
           /\ UNCHANGED mgr_vars]_vars

\* a seq request was turned away from an asset whose binding had expired
\* unused, so that issuing would have allocated
C13_Witness ==
    /\ last.call.op = "handle_seq_request"
    /\ last.decision.decision = "REJECT"
    /\ last.call.uid \in DOMAIN by_uid
    /\ ~by_uid[last.call.uid].used
    /\ clock > by_uid[last.call.uid].expires_at

EngineOps ==
    {"handle_rfid_read", "handle_seq_request", "handle_xrf_report",
     "handle_slot_assigned", "handle_storage_confirmed", "handle_slot_motion"}

Decisions == {"ACCEPT", "REJECT", "ALERT"}

\* the latest call was an engine call that returned a decision record
ReturnedDecision ==
    /\ last.raised = ""
    /\ last.decision.decision \in Decisions
    /\ last.decision.asset_id = last.call.uid

BlankSeqRequestStep ==
    /\ last'.call.op = "handle_seq_request"
    /\ last'.call.uid \in BlankUIDs
    /\ get_fsm(last'.call.uid) = "RFID_VERIFIED"

\* the step is a call that fails a business rule: an event the asset's state
\* does not allow, or a report in SEQ_BOUND whose identity is missing,
\* mismatched, expired or used, or whose measurement misses a threshold
BusinessRuleFailureStep ==
    LET c == last'.call
        state == get_fsm(c.uid)
    IN \/ c.op = "handle_rfid_read" /\ state # "UNREGISTERED"
       \/ c.op = "handle_seq_request" /\ state # "RFID_VERIFIED"
       \/ c.op = "handle_slot_assigned" /\ state # "XRF_VERIFIED"
       \/ c.op = "handle_storage_confirmed" /\ state # "SLOT_BOUND"
       \/ /\ c.op = "handle_xrf_report"
          /\ \/ state # "SEQ_BOUND"
             \/ c.uid \notin DOMAIN by_uid
             \/ by_uid[c.uid].seq_id # c.seq_id
             \/ clock' > by_uid[c.uid].expires_at
             \/ by_uid[c.uid].used
             \/ ~MeetsThresholds(c)

C15_BlankUidRaises ==
    [][/\ (last'.call.op = "issue" /\ last'.call.uid \in BlankUIDs)
              => /\ last'.raised = "ValueError"
                 /\ last'.binding = NoBinding
                 /\ UNCHANGED mgr_vars
       /\ BlankSeqRequestStep
              => /\ last'.raised = "ValueError"
                 /\ last'.decision = NoDecision
                 /\ \A u \in BlankUIDs :
                        last'.call.uid = u => get_fsm(u)' = "RFID_VERIFIED"
                 /\ UNCHANGED <<mgr_vars, accepted>>]_vars

\* a seq request for a whitespace-only uid in RFID_VERIFIED has raised, after
\* bindings were issued to another asset
C15_Witness ==
    /\ last.call.op = "handle_seq_request"
    /\ last.call.uid = " "
    /\ last.raised = "ValueError"
    /\ get_fsm(" ") = "RFID_VERIFIED"
    /\ counter > start_counter

\* C16: a decision is ALERT exactly when handle_slot_motion produced it; a
\* step that is handle_slot_motion returns ALERT with reason
\* SLOT_MOTION_DETECTED and prev_state and next_state both the state the
\* asset had, whatever that state, and changes no asset's state, nothing of
\* the identity manager and no record of accepted events.
C16_AlertOnlyForMotion ==
    /\ [](last.decision.decision = "ALERT"
              <=> last.call.op = "handle_slot_motion")
    /\ [][last'.call.op = "handle_slot_motion"
            => /\ last'.decision.decision = "ALERT"
               /\ last'.decision.reason = "SLOT_MOTION_DETECTED"
               /\ last'.decision.event = "SLOT_MOTION"
               /\ last'.decision.prev_state = get_fsm(last'.call.uid)
               /\ last'.decision.next_state = last'.decision.prev_state
               /\ \A u \in UIDs : get_fsm(u)' = get_fsm(u)
               /\ UNCHANGED <<mgr_vars, accepted>>]_vars

\* motion was reported on a stored asset while the other asset holds an
\* unused binding
C16_Witness ==
    \E u \in UIDs, v \in UIDs :
        /\ u # v
        /\ last.call.op = "handle_slot_motion"
        /\ last.call.uid = u
        /\ last.decision.decision = "ALERT"
        /\ get_fsm(u) = "STORED"
        /\ get_fsm(v) = "SEQ_BOUND"
        /\ ~by_uid[v].used

\* C17: a step that applies SLOT_MOTION or TAMPER to a machine, whatever its
\* state, returns accepted with reason NON_TRANSITION_EVENT_ACCEPTED and
\* prev_state and next_state both the state the machine had, and leaves
\* every machine's state as it was.
C17_NonTransitionKeepsState ==
    [][(/\ last'.call.op = "apply"
        /\ last'.call.event \in {"SLOT_MOTION", "TAMPER"})
           => /\ last'.status
                     = [accepted |-> TRUE,
                        prev_state |-> fsms[last'.call.uid],
                        event |-> last'.call.event,
                        next_state |-> fsms[last'.call.uid],
                        reason |-> "NON_TRANSITION_EVENT_ACCEPTED"]
              /\ fsms' = fsms]_vars

\* TAMPER was applied to a machine that had gone the whole path to STORED
C17_Witness ==
    /\ last.call.op = "apply"
    /\ last.call.event = "TAMPER"
    /\ last.status.accepted
    /\ last.status.prev_state = "STORED"
    /\ fsms[last.call.uid] = "STORED"

\* C18: a step that applies a transition event to a machine accepts with
\* STATE_ADVANCED and moves the machine to the next state of the chain
\* exactly when the event is the one the happy path has at the machine's
\* state; for every other pair it returns accepted = FALSE with reason
\* ILLEGAL_TRANSITION:<state>-><event> and next_state = prev_state, and the
\* machine stays where it was.  The other machine is never touched.
C18_ApplyFollowsAllowList ==
    [][(/\ last'.call.op = "apply"
        /\ last'.call.event \notin {"SLOT_MOTION", "TAMPER"})
           => LET m == last'.call.uid
                  e == last'.call.event
                  prev == fsms[m]
                  i == StateIndex(prev)
                  listed == i <= Len(HappyPath) /\ HappyPath[i] = e
              IN /\ listed
                        => /\ last'.status
                                  = [accepted |-> TRUE, prev_state |-> prev,
                                     event |-> e,
                                     next_state |-> AssetState[i + 1],
                                     reason |-> "STATE_ADVANCED"]
                           /\ fsms' = [fsms EXCEPT ![m] = AssetState[i + 1]]
                 /\ ~listed
                        => /\ last'.status
                                  = [accepted |-> FALSE, prev_state |-> prev,
                                     event |-> e, next_state |-> prev,
                                     reason |-> "ILLEGAL_TRANSITION:" \o prev
                                                    \o "->" \o e]
                           /\ fsms' = fsms
                 /\ ~last'.status.accepted
                        => last'.status.next_state = last'.status.prev_state
      ]_vars

\* a report event was applied to a fresh machine and refused, after the
\* other machine had gone the whole path
C18_Witness ==
    \E m \in Machines, n \in Machines :
        /\ m # n
        /\ last.call.op = "apply"
        /\ last.call.uid = m
        /\ last.status.reason
               = "ILLEGAL_TRANSITION:UNREGISTERED->XRF_REPORT_ACCEPTED"
        /\ fsms[m] = "UNREGISTERED"
        /\ fsms[n] = "STORED"

\* the state each gated operation requires and the reason it rejects with
GateOf ==
    [handle_seq_request |->
         [required |-> "RFID_VERIFIED", reason |-> "STATE_NOT_RFID_VERIFIED"],
     handle_xrf_report |->
         [required |-> "SEQ_BOUND", reason |-> "STATE_NOT_SEQ_BOUND"],
     handle_slot_assigned |->
         [required |-> "XRF_VERIFIED", reason |-> "STATE_NOT_XRF_VERIFIED"],
     handle_storage_confirmed |->
         [required |-> "SLOT_BOUND", reason |-> "STATE_NOT_SLOT_BOUND"]]

\* C19: a step that is a gated operation on an asset not in the state the
\* operation requires is decided REJECT with the operation's own reason
\* code, whatever its other arguments, reports prev_state and next_state as
\* the state the asset had, and changes no asset's state and nothing of the
\* identity manager.
C19_GateRejects ==
    [][(/\ last'.call.op \in DOMAIN GateOf
        /\ get_fsm(last'.call.uid) # GateOf[last'.call.op].required)
           => /\ last'.decision.decision = "REJECT"
              /\ last'.decision.reason = GateOf[last'.call.op].reason
              /\ last'.decision.prev_state = get_fsm(last'.call.uid)
              /\ last'.decision.next_state = get_fsm(last'.call.uid)
              /\ \A u \in UIDs : get_fsm(u)' = get_fsm(u)
              /\ UNCHANGED <<mgr_vars, accepted>>]_vars

\* a report on an asset never read, turned away by the state gate although
\* it presents a live, unused seq_id and a measurement that meets the
\* thresholds
C19_Witness ==
    /\ IsXrfCall
    /\ last.decision.reason = "STATE_NOT_SEQ_BOUND"
    /\ get_fsm(last.call.uid) = "UNREGISTERED"
    /\ last.call.seq_id \in DOMAIN by_seq
    /\ ~by_seq[last.call.seq_id].used
    /\ clock <= by_seq[last.call.seq_id].expires_at
    /\ MeetsThresholds(last.call)

IdentityReasons ==
    {"SEQ_INVALID:NO_BINDING_FOR_UID", "SEQ_INVALID:SEQ_MISMATCH",
     "SEQ_INVALID:EXPIRED", "SEQ_INVALID:ALREADY_USED"}

\* C20: a step that is a verification report is decided by the first check
\* that fails in the order state gate, identity, purity, scan duration,
\* contact: its reason is that check's, whatever later checks would have
\* said; it is accepted into XRF_VERIFIED when none fails; and the identity
\* manager changes only in an accepted report that moved the asset to
\* XRF_VERIFIED, where the presented binding becomes used in both indexes.
C20_XrfCheckOrder ==
    [][last'.call.op = "handle_xrf_report" =>
        LET c == last'.call
            d == last'.decision
            th == c.thresholds
            gate == get_fsm(c.uid) # "SEQ_BOUND"
            identity ==
                \/ c.uid \notin DOMAIN by_uid
                \/ by_uid[c.uid].seq_id # c.seq_id
                \/ clock' > by_uid[c.uid].expires_at
                \/ by_uid[c.uid].used
            low == c.purity < ThGet(th, "purity_min_percent", DefaultPurityMin)
            short == c.scan_duration_s
                         < ThGet(th, "scan_duration_min_seconds",
                                 DefaultScanMin)
            contact == ThGet(th, "contact_required", TRUE) /\ ~c.contact_ok
        IN /\ gate => d.reason = "STATE_NOT_SEQ_BOUND"
           /\ (~gate /\ identity) => d.reason \in IdentityReasons
           /\ (~gate /\ ~identity /\ low)
                  => d.reason = "SANITY_FAIL:PURITY_TOO_LOW"
           /\ (~gate /\ ~identity /\ ~low /\ short)
                  => d.reason = "SANITY_FAIL:SCAN_TOO_SHORT"
           /\ (~gate /\ ~identity /\ ~low /\ ~short /\ contact)
                  => d.reason = "SANITY_FAIL:CONTACT_NOT_OK"
           /\ (gate \/ identity \/ low \/ short \/ contact)
                  <=> d.decision = "REJECT"
           /\ d.decision # "REJECT"
                  => /\ d.decision = "ACCEPT"
                     /\ d.reason = "STATE_ADVANCED"
                     /\ d.next_state = "XRF_VERIFIED"
           /\ d.decision = "REJECT" => UNCHANGED mgr_vars
           /\ (by_uid' # by_uid \/ by_seq' # by_seq)
                  => /\ d.decision = "ACCEPT"
                     /\ \A u \in UIDs :
                            c.uid = u => /\ get_fsm(u) = "SEQ_BOUND"
                                         /\ get_fsm(u)' = "XRF_VERIFIED"
                     /\ by_uid'[c.uid].used
                     /\ by_seq'[c.seq_id].used
                     /\ counter' = counter
       ]_vars

\* a report on an asset in SEQ_BOUND presenting another seq_id than its own,
\* past the window of its own and missing every threshold, was turned away as
\* a mismatch
C20_Witness ==
    /\ IsXrfCall
    /\ last.decision.prev_state = "SEQ_BOUND"
    /\ last.call.purity < DefaultPurityMin
    /\ last.call.scan_duration_s < DefaultScanMin
    /\ ~last.call.contact_ok
    /\ clock > by_uid[last.call.uid].expires_at
    /\ last.decision.reason = "SEQ_INVALID:SEQ_MISMATCH"

\* C21: of two concurrent handle_xrf_report calls that present the same
\* (uid, seq_id), at most one is decided ACCEPT, and the asset's record shows
\* at most one accepted verification report.
C21_OneAcceptUnderRace ==
    /\ \A t \in Threads, v \in Threads :
           (/\ t # v
            /\ threads[t].call.op = "handle_xrf_report"
            /\ threads[v].call.op = "handle_xrf_report"
            /\ threads[t].call.uid = threads[v].call.uid
            /\ threads[t].call.seq_id = threads[v].call.seq_id)
               => ~(/\ threads[t].ret.decision = "ACCEPT"
                    /\ threads[v].ret.decision = "ACCEPT")
    /\ \A u \in UIDs, s \in SeqInputs : Cardinality(XrfAccepts(u, s)) <= 1

\* C22: when two concurrent issue calls for different uids have both
\* allocated and returned, the two bindings have different seq_ids and the
\* counter stands two above where it started.
C22_CounterAtomicUnderRace ==
    \A t \in Threads, v \in Threads :
        (/\ t # v
         /\ threads[t].call.op = "issue" /\ threads[t].pc = "returned"
         /\ threads[v].call.op = "issue" /\ threads[v].pc = "returned"
         /\ threads[t].call.uid # threads[v].call.uid)
            => /\ threads[t].ret.seq_id # threads[v].ret.seq_id
               /\ counter = start_counter + 2

\* C23: a step that is mark_used(uid, seq_id) returns NOT_FOUND when no
\* binding is stored for uid and SEQ_MISMATCH when the stored one has another
\* seq_id, changing nothing; otherwise it returns OK and both indexes hold,
\* under uid and under seq_id, the stored binding with used set and every
\* other field as it was, all other entries and the counter unchanged; on a
\* binding already used it returns OK and changes nothing.
C23_MarkUsed ==
    [][last'.call.op = "mark_used" =>
        LET u == last'.call.uid
            s == last'.call.seq_id
            has == u \in DOMAIN by_uid
            match == has /\ by_uid[u].seq_id = s
        IN /\ ~has => last'.status = "NOT_FOUND" /\ UNCHANGED mgr_vars
           /\ (has /\ ~match)
                  => last'.status = "SEQ_MISMATCH" /\ UNCHANGED mgr_vars
           /\ match
                  => /\ last'.status = "OK"
                     /\ by_uid'[u] = [by_uid[u] EXCEPT !.used = TRUE]
                     /\ by_seq'[s] = [by_uid[u] EXCEPT !.used = TRUE]
                     /\ DOMAIN by_uid' = DOMAIN by_uid
                     /\ DOMAIN by_seq' = DOMAIN by_seq
                     /\ \A x \in DOMAIN by_uid \ {u} : by_uid'[x] = by_uid[x]
                     /\ \A x \in DOMAIN by_seq \ {s} : by_seq'[x] = by_seq[x]
                     /\ counter' = counter
           /\ (match /\ by_uid[u].used) => UNCHANGED mgr_vars]_vars

\* mark_used returned OK for one uid's binding while another uid holds an
\* unused one
C23_Witness ==
    \E v \in DOMAIN by_uid :
        /\ last.call.op = "mark_used"
        /\ last.status = "OK"
        /\ v # last.call.uid
        /\ by_uid[last.call.uid].used
        /\ by_seq[last.call.seq_id].used
        /\ ~by_uid[v].used

\* C24: a step that is issue(uid, now) for a non-empty uid with no stored
\* binding, or whose stored binding is used or expired as of now, returns a
\* new binding with seq_id the counter before the call, issued_at = now,
\* expires_at = now + the validity window and used = FALSE, moves the
\* counter up by one and stores the binding under uid and under its seq_id;
\* after it the new binding validates OK at now and the uid's previous
\* seq_id validates as SEQ_MISMATCH.
C24_IssueAllocates ==
    [][\A u \in MgrUIDs \ BlankUIDs, now \in Times :
        (/\ last'.call.op = "issue"
         /\ last'.call.uid = u
         /\ TimeOr(last'.call.now, clock') = now
         /\ \/ u \notin DOMAIN by_uid
            \/ by_uid[u].used
            \/ now > by_uid[u].expires_at)
           => /\ last'.raised = ""
              /\ last'.binding
                     = [uid |-> u, seq_id |-> counter, issued_at |-> now,
                        expires_at |-> now + validity, used |-> FALSE]
              /\ counter' = counter + 1
              /\ by_uid' = Put(by_uid, u, last'.binding)
              /\ by_seq' = Put(by_seq, counter, last'.binding)
              /\ \A s \in start_counter .. (start_counter + MaxAlloc) :
                     /\ s = counter => validate(u, s, now, now)' = "OK"
                     /\ (u \in DOMAIN by_uid /\ s = by_uid[u].seq_id)
                            => validate(u, s, now, now)' = "SEQ_MISMATCH"
      ]_vars

\* issue replaced a binding that had expired unused, for an instant handed
\* in that is not the wall clock's
C24_Witness ==
    \E s \in DOMAIN by_seq :
        /\ last.call.op = "issue"
        /\ last.call.now # NoTime
        /\ last.call.now # clock
        /\ last.binding.seq_id = counter - 1
        /\ last.binding.issued_at = last.call.now
        /\ by_seq[s].uid = last.call.uid
        /\ s < last.binding.seq_id
        /\ ~by_seq[s].used
        /\ by_seq[s].expires_at < last.call.now

C25_WitnessDefaults ==
    /\ IsXrfCall
    /\ last.decision.decision = "ACCEPT"
    /\ last.call.thresholds = NoThresholds
    /\ last.call.purity = 990
    /\ last.call.scan_duration_s = 8

\* the step is an engine call for a uid the engine holds no machine for
UnseenUidStep ==
    /\ last'.call.op \in EngineOps
    /\ last'.call.uid \notin DOMAIN fsms

\* C26 as stated: a step that is an engine call other than an RFID read, for
\* a uid the engine holds no machine for, is decided REJECT or ALERT from
\* UNREGISTERED and adds no uid to the engine's store of machines; a machine
\* that a step adds was created in UNREGISTERED.
C26_OnlyRfidReadCreates ==
    [][UnseenUidStep
           => /\ last'.decision.prev_state = "UNREGISTERED"
              /\ last'.call.op # "handle_rfid_read"
                    => /\ last'.decision.decision \in {"REJECT", "ALERT"}
                       /\ DOMAIN fsms' = DOMAIN fsms]_vars

\* C26: a step that is an engine call for a uid the engine holds no machine
\* for is decided from UNREGISTERED and adds that uid, and no other, to the
\* store of machines; an RFID read is accepted and leaves the new machine in
\* RFID_VERIFIED; any other call is rejected with its gate's reason, or
\* alerted for motion, leaves the new machine in UNREGISTERED and changes
\* nothing else of the engine.
C26_EveryCallCreates ==
    [][UnseenUidStep
           => /\ last'.decision.prev_state = "UNREGISTERED"
              /\ DOMAIN fsms' = DOMAIN fsms \cup {last'.call.uid}
              /\ \A u \in DOMAIN fsms : fsms'[u] = fsms[u]
              /\ last'.call.op = "handle_rfid_read"
                    => /\ last'.decision.decision = "ACCEPT"
                       /\ fsms'[last'.call.uid] = "RFID_VERIFIED"
              /\ last'.call.op # "handle_rfid_read"
                    => /\ fsms'[last'.call.uid] = "UNREGISTERED"
                       /\ UNCHANGED <<mgr_vars, accepted>>
              /\ last'.call.op \in DOMAIN GateOf
                    => /\ last'.decision.decision = "REJECT"
                       /\ last'.decision.reason = GateOf[last'.call.op].reason
              /\ last'.call.op = "handle_slot_motion"
                    => last'.decision.decision = "ALERT"]_vars

\* the only machine the engine holds is one in UNREGISTERED, for a uid whose
\* report was turned away by the state gate
C26_Witness ==
    /\ IsXrfCall
    /\ last.decision.decision = "REJECT"
    /\ last.decision.reason = "STATE_NOT_SEQ_BOUND"
    /\ DOMAIN fsms = {last.call.uid}
    /\ fsms[last.call.uid] = "UNREGISTERED"
    /\ accepted[last.call.uid] = <<>>

\* C27: a step that is an RFID read is accepted exactly when the asset is in
\* UNREGISTERED, and then moves it to RFID_VERIFIED; for an asset in any
\* later state it is decided REJECT with the machine's reason
\* ILLEGAL_TRANSITION:<state>->RFID_READ and leaves the asset in that state;
\* either way no other asset and nothing of the identity manager changes.
C27_RfidReadLeftToMachine ==
    [][last'.call.op = "handle_rfid_read"
           => LET u == last'.call.uid
                  state == get_fsm(last'.call.uid)
                  d == last'.decision
              IN /\ (d.decision = "ACCEPT") = (state = "UNREGISTERED")
                 /\ state = "UNREGISTERED"
                       => /\ fsms'[u] = "RFID_VERIFIED"
                          /\ d.next_state = "RFID_VERIFIED"
                 /\ state # "UNREGISTERED"
                       => /\ d.decision = "REJECT"
                          /\ d.reason = "ILLEGAL_TRANSITION:" \o state
                                            \o "->RFID_READ"
                          /\ d.prev_state = state
                          /\ d.next_state = state
                          /\ fsms'[u] = state
                          /\ accepted' = accepted
                 /\ \A v \in DOMAIN fsms \ {u} : fsms'[v] = fsms[v]
                 /\ UNCHANGED mgr_vars]_vars

\* a repeated RFID read for an asset in SEQ_BOUND was rejected; the asset is
\* still in SEQ_BOUND and still holds its unused binding
C27_Witness ==
    /\ last.call.op = "handle_rfid_read"
    /\ last.decision.decision = "REJECT"
    /\ last.decision.reason = "ILLEGAL_TRANSITION:SEQ_BOUND->RFID_READ"
    /\ fsms[last.call.uid] = "SEQ_BOUND"
    /\ last.call.uid \in DOMAIN by_uid
    /\ ~by_uid[last.call.uid].used

\* C28: a step that asks can_apply(event) of a machine, whatever its state
\* and the event, leaves every machine's state as it was and returns true
\* exactly when apply(event) from that state returns accepted = true.
C28_CanApplyIsPureQuery ==
    [][last'.call.op = "can_apply"
           => /\ fsms' = fsms
              /\ last'.status
                    = apply(fsms[last'.call.uid], last'.call.event).accepted
              /\ \E event \in EventType, m \in Machines :
                    /\ last'.call = FsmCall("can_apply", m, event)
                    /\ last'.status
                          = (apply_state(fsms[m], event) # fsms[m]
                             \/ event \in {"SLOT_MOTION", "TAMPER"})]_vars

\* can_apply answered true for TAMPER on a stored machine, which stayed
\* stored
C28_Witness ==
    /\ last.call.op = "can_apply"
    /\ last.call.event = "TAMPER"
    /\ last.status = TRUE
    /\ fsms[last.call.uid] = "STORED"

\* can_apply answered false for SEQ_ASSIGNED on a machine never read, which
\* stayed unregistered
C28_WitnessRefused ==
    /\ last.call.op = "can_apply"
    /\ last.call.event = "SEQ_ASSIGNED"
    /\ last.status = FALSE
    /\ fsms[last.call.uid] = "UNREGISTERED"

\* C29: in every state reached by engine calls one after another, an asset
\* in UNREGISTERED or RFID_VERIFIED has no binding, an asset in SEQ_BOUND
\* has an unused binding, and an asset in XRF_VERIFIED, SLOT_BOUND or STORED
\* has a used binding; so for an asset in SEQ_BOUND, where alone a report is
\* validated, validation of any seq_id at any later instant yields OK,
\* SEQ_MISMATCH or EXPIRED, and no report was ever rejected as ALREADY_USED
\* or NO_BINDING_FOR_UID.
C29_StateIdentityInvariant ==
    /\ \A u \in UIDs :
          /\ get_fsm(u) \in {"UNREGISTERED", "RFID_VERIFIED"}
                => u \notin DOMAIN by_uid
          /\ get_fsm(u) = "SEQ_BOUND"
                => /\ u \in DOMAIN by_uid
                   /\ ~by_uid[u].used
                   /\ \A seq_id \in SeqInputs, wall \in clock .. MaxClock :
                         validate(u, seq_id, xrf_validate_now(NoTs), wall)
                             \in {"OK", "SEQ_MISMATCH", "EXPIRED"}
          /\ get_fsm(u) \in {"XRF_VERIFIED", "SLOT_BOUND", "STORED"}
                => /\ u \in DOMAIN by_uid
                   /\ by_uid[u].used
    /\ IsXrfCall
          => last.decision.reason
                 \notin {"SEQ_INVALID:ALREADY_USED",
                         "SEQ_INVALID:NO_BINDING_FOR_UID"}

\* one asset is stored with its binding used while another, in SEQ_BOUND
\* with its binding unused, has just had a report rejected for presenting
\* the stored asset's seq_id
C29_Witness ==
    \E u \in UIDs, v \in UIDs :
        /\ IsXrfCall
        /\ last.call.uid = u
        /\ last.decision.reason = "SEQ_INVALID:SEQ_MISMATCH"
        /\ get_fsm(u) = "SEQ_BOUND"
        /\ ~by_uid[u].used
        /\ get_fsm(v) = "STORED"
        /\ by_uid[v].used
        /\ last.call.seq_id = by_uid[v].seq_id

\* the seq_ids the identity manager has stored for uid u
SeqIdsOf(u) == {s \in DOMAIN by_seq : by_seq[s].uid = u}

\* asset u is in SEQ_BOUND and the window of its binding has passed
ExpiredInSeqBound(u) ==
    /\ get_fsm(u) = "SEQ_BOUND"
    /\ u \in DOMAIN by_uid
    /\ clock > by_uid[u].expires_at

\* C30: through engine calls a uid is allocated at most one seq_id: no uid
\* ever has two seq_ids stored, and the seq_id and window of a uid's binding
\* never change once issued.  A step whose wall clock is past the window of
\* the binding of an asset in SEQ_BOUND leaves the asset in SEQ_BOUND, and
\* if it is a call on that asset it is decided REJECT or ALERT; so once the
\* window has passed the asset is in SEQ_BOUND in every later state.
C30_OneSeqIdForLife ==
    /\ [](\A u \in UIDs : Cardinality(SeqIdsOf(u)) <= 1)
    /\ [][\A u \in UIDs :
            /\ u \in DOMAIN by_uid
                  => /\ u \in DOMAIN by_uid'
                     /\ by_uid'[u].seq_id = by_uid[u].seq_id
                     /\ by_uid'[u].issued_at = by_uid[u].issued_at
                     /\ by_uid'[u].expires_at = by_uid[u].expires_at
            /\ (/\ get_fsm(u) = "SEQ_BOUND"
                /\ clock' > by_uid[u].expires_at)
                  => /\ get_fsm(u)' = "SEQ_BOUND"
                     /\ last'.call.uid = u
                           => last'.decision.decision \in {"REJECT", "ALERT"}
       ]_vars
    /\ \A u \in UIDs :
          [](ExpiredInSeqBound(u) => [](get_fsm(u) = "SEQ_BOUND"))

\* an asset whose window passed in SEQ_BOUND asked for a seq_id again and
\* was turned away; it still holds the one seq_id it was ever given
C30_Witness ==
    \E u \in UIDs :
        /\ ExpiredInSeqBound(u)
        /\ last.call.op = "handle_seq_request"
        /\ last.call.uid = u
        /\ last.decision.decision = "REJECT"
        /\ last.decision.reason = "STATE_NOT_RFID_VERIFIED"
        /\ SeqIdsOf(u) = {by_uid[u].seq_id}
        /\ Len(accepted[u]) = 2

\* the bindings stored under some seq_id for uid u
BindingsBySeqOf(u) == {b \in StoredBySeq : b.uid = u}

\* C31: a step that is an engine call on one uid, whatever it decides,
\* leaves every other uid as it was: the same machine or none, in the same
\* state, and the same binding or none, with the same seq_id, issued_at,
\* expires_at and used, under the uid and under its seq_id.  Of what assets
\* share, only the identity counter may change.
C31_AssetsIsolated ==
    [][last'.call.op \in EngineOps
           => \A b \in UIDs \ {last'.call.uid} :
                 /\ (b \in DOMAIN fsms') = (b \in DOMAIN fsms)
                 /\ get_fsm(b)' = get_fsm(b)
                 /\ (b \in DOMAIN by_uid') = (b \in DOMAIN by_uid)
                 /\ b \in DOMAIN by_uid => by_uid'[b] = by_uid[b]
                 /\ BindingsBySeqOf(b)' = BindingsBySeqOf(b)
                 /\ accepted'[b] = accepted[b]]_vars

\* a seq request for one asset was accepted and moved the counter while
\* another asset, bound earlier, sits in a later state with its binding used
C31_Witness ==
    \E a \in UIDs, b \in UIDs :
        /\ a # b
        /\ last.call.op = "handle_seq_request"
        /\ last.call.uid = a
        /\ last.decision.decision = "ACCEPT"
        /\ a \in DOMAIN by_uid
        /\ b \in DOMAIN by_uid
        /\ by_uid[b].seq_id < by_uid[a].seq_id
        /\ by_uid[b].used
        /\ get_fsm(b) = "XRF_VERIFIED"
        /\ counter = by_uid[a].seq_id + 1

\* C32: a step that is an engine call returning a decision reports as
\* prev_state the state the asset had before the call and as next_state the
\* state it has after it; the decision is ACCEPT exactly when its event is
\* the one the happy path has at prev_state and next_state is the state that
\* follows prev_state in the chain; and a REJECT or an ALERT reports
\* next_state = prev_state.
C32_DecisionMatchesState ==
    [][(last'.call.op \in EngineOps /\ last'.raised = "")
           => LET d == last'.decision
                  i == StateIndex(last'.decision.prev_state)
                  successor ==
                      /\ i <= Len(HappyPath)
                      /\ HappyPath[i] = d.event
                      /\ d.next_state = AssetState[i + 1]
              IN /\ d.prev_state = get_fsm(last'.call.uid)
                 /\ \A u \in UIDs :
                       last'.call.uid = u => d.next_state = get_fsm(u)'
                 /\ (d.decision = "ACCEPT") = successor
                 /\ d.decision \in {"REJECT", "ALERT"}
                       => d.next_state = d.prev_state]_vars

\* a slot assignment was accepted from XRF_VERIFIED into SLOT_BOUND, where
\* the asset now is
C32_Witness ==
    /\ last.call.op = "handle_slot_assigned"
    /\ last.decision.decision = "ACCEPT"
    /\ last.decision.event = "SLOT_ASSIGNED"
    /\ last.decision.prev_state = "XRF_VERIFIED"
    /\ last.decision.next_state = "SLOT_BOUND"
    /\ get_fsm(last.call.uid) = "SLOT_BOUND"

====
